---- MODULE Spec2Model ----
(***************************************************************************)
(* Model of XanaAI's backend.                                              *)
(*                                                                         *)
(* Spec: the query-time pipeline, QueryService.handleQuery and the steps   *)
(* it runs (chart intent, alert intent, semantic retrieval, answer         *)
(* synthesis), from src/backend/src/endpoints/query/dto/query.dto.ts.      *)
(* SpecChunk: RagIngestService.chunkByTokens, pass by pass; SpecPdf:       *)
(* RagIngestService.processPdfs, its pool and its workers, await by await, *)
(* both from src/backend/src/endpoints/ionos-rest/rag.module.ts.           *)
(* SpecFit: fit of IonosService.createEmbeddings, from                     *)
(* src/backend/src/endpoints/ionos-rest/ionos.service.ts.                  *)
(* SpecIngest: RagIngestService.ingestFolder, await by await, with the     *)
(* processPdfs it calls, over one or more calls on the same service;       *)
(* SpecCollect: RagIngestService.collectPdfUrls; SpecMilvus:               *)
(* MilvusRagService.getOrCreateCollectionName; SpecMongo: concurrent       *)
(* VectorMappingService.listMappings calls and their getClient; all four   *)
(* from rag.module.ts.                                                     *)
(*                                                                         *)
(* Strings are sequences of tokens.  JavaScript values are tagged records  *)
(* [t |-> "null" | "undef" | "bool" | "str" | "num" | "obj" | "arr"]; the  *)
(* s of a "str" is its token sequence.                                     *)
(***************************************************************************)
EXTENDS FiniteSets, Integers, Sequences, TLC

\* ------------------------------------------------------------------ bounds
MaxTurns == 11
MaxHits == 2
MaxRows == 2
MaxWords == 5
MaxTokenCfg == 3
MaxVecLen == 4
MaxDim == 4
MaxUrls == 3
MaxPool == 3
MaxDepth == 2
MaxCallers == 3
MaxFiles == 2
MaxRuns == 2

\* ------------------------------------------------------- JavaScript values
JNull == [t |-> "null"]
JUndef == [t |-> "undef"]
JBool(b) == [t |-> "bool", b |-> b]
JStr(s) == [t |-> "str", s |-> s]
JNum(n) == [t |-> "num", n |-> n]

\* JavaScript truthiness: null, undefined, false, "" and 0 are falsy; every
\* object and every array (the empty array included) is truthy.
Truthy(v) ==
    CASE v.t = "null" -> FALSE
      [] v.t = "undef" -> FALSE
      [] v.t = "bool" -> v.b
      [] v.t = "str" -> v.s # <<>>
      [] v.t = "num" -> v.n # 0
      [] OTHER -> TRUE

\* x ?? d
Coalesce(v, d) == IF v.t \in {"null", "undef"} THEN d ELSE v

\* ------------------------------------------------------------- text tokens
\* A string is a sequence of tokens: a code fence, the word json, one white
\* space character, unparseable text, the text of one JSON value, an opening
\* brace followed by text that is not JSON, or one ordinary character c.
Fence == [k |-> "fence"]
JsonWord == [k |-> "json"]
Ws == [k |-> "ws"]
Txt == [k |-> "txt"]
Val(v) == [k |-> "val", v |-> v]
Brace == [k |-> "brace"]
Ch(c) == [k |-> "ch", c |-> c]

RECURSIVE DropLeadingWs(_)
DropLeadingWs(s) ==
    IF s # <<>> /\ Head(s) = Ws THEN DropLeadingWs(Tail(s)) ELSE s

RECURSIVE DropTrailingWs(_)
DropTrailingWs(s) ==
    IF s # <<>> /\ s[Len(s)] = Ws
    THEN DropTrailingWs(SubSeq(s, 1, Len(s) - 1)) ELSE s

\* String.prototype.trim
TrimTokens(s) == DropTrailingWs(DropLeadingWs(s))

\* out.replace(/^```(?:json)?\s*|\s*```$/g, ''): the first alternative
\* removes a fence at the very start, an optional "json" and the white space
\* after it; the second removes a fence at the very end and the white space
\* before it.
StripLeadingFence(s) ==
    IF s # <<>> /\ Head(s) = Fence
    THEN LET a == Tail(s)
             b == IF a # <<>> /\ Head(a) = JsonWord THEN Tail(a) ELSE a
         IN DropLeadingWs(b)
    ELSE s

StripTrailingFence(s) ==
    IF s # <<>> /\ s[Len(s)] = Fence
    THEN DropTrailingWs(SubSeq(s, 1, Len(s) - 1))
    ELSE s

StripCodeFences(s) == TrimTokens(StripTrailingFence(StripLeadingFence(s)))

\* JSON.parse: succeeds exactly on the text of one JSON value, white space
\* around it allowed.
JsonParses(s) ==
    LET c == TrimTokens(s) IN Len(c) = 1 /\ c[1].k = "val"

JsonValue(s) == TrimTokens(s)[1].v

\* asString of detectChartIntentWithLLM / detectAlertIntentWithLLM: a string
\* is kept, an array is the join of its text parts with "\n", an object is
\* JSON.stringify'd, anything else is ''.
RECURSIVE JoinParts(_)
JoinParts(parts) ==
    IF parts = <<>> THEN <<>>
    ELSE IF Len(parts) = 1 THEN Head(parts)
    ELSE Head(parts) \o <<Ws>> \o JoinParts(Tail(parts))

NonEmptyParts(parts) == SelectSeq(parts, LAMBDA p : p # <<>>)

asString(x) ==
    CASE x.t = "str" -> x.s
      [] x.t = "arr" -> JoinParts(NonEmptyParts(x.parts))
      [] x.t = "obj" -> <<Val(x)>>
      [] OTHER -> <<>>

\* x.f of JavaScript for a non-null x: undefined when x has no such property.
Get(v, f) == IF v.t = "obj" /\ f \in DOMAIN v THEN v[f] ELSE JUndef

\* ------------------------------------------------------ intent classifiers
\* The result of ionosservice.chatCompletion: the call rejects (ok = FALSE)
\* or resolves with a response whose choices[0].message.content is content.
\* NoCall stands for no call made.
Rejected == [ok |-> FALSE, content |-> JUndef]
Resolved(c) == [ok |-> TRUE, content |-> c]
NoCall == [ok |-> FALSE, content |-> JNull]

NoChartIntent ==
    [t |-> "obj", wants_chart |-> JBool(FALSE), asset_urn |-> JUndef,
     metric |-> JUndef, last |-> JUndef, from |-> JUndef, to |-> JUndef]

NoAlertIntent ==
    [t |-> "obj", wants_alert |-> JBool(FALSE), asset_urn |-> JUndef]

\* What an async function produced: a value, or a rejection.
Returned(v) == [raised |-> FALSE, value |-> v]
Raised == [raised |-> TRUE, value |-> JUndef]

ParseOrNegative_Throws(cleaned, negative) ==
    IF JsonParses(cleaned) THEN Returned(JsonValue(cleaned))
    ELSE Raised

\* The tail of detectChartIntentWithLLM / detectAlertIntentWithLLM:
\* try { return JSON.parse(cleaned) } catch { return negative }.
ParseOrNegative(cleaned, negative) ==
    IF JsonParses(cleaned) THEN Returned(JsonValue(cleaned))
    ELSE Returned(negative)

detectChartIntentWithLLM(r) ==
    IF ~r.ok THEN Raised
    ELSE ParseOrNegative(StripCodeFences(asString(r.content)), NoChartIntent)

detectAlertIntentWithLLM(r) ==
    IF ~r.ok THEN Raised
    ELSE ParseOrNegative(StripCodeFences(asString(r.content)), NoAlertIntent)

\* --------------------------------------------------------- the chart step
\* [...messages].reverse().find(m => m.role === 'user'): the index of the
\* last user turn, 0 when there is none.
lastUser(msgs) ==
    LET U == {i \in 1..Len(msgs) : msgs[i].role = "user"}
    IN IF U = {} THEN 0 ELSE CHOOSE i \in U : \A j \in U : j <= i

\* let from = ""; if (nlu.from) from = nlu.from;   (likewise to)
resolveFrom(nlu) ==
    IF Truthy(Get(nlu, "from")) THEN Get(nlu, "from") ELSE JStr(<<>>)

resolveTo(nlu) ==
    IF Truthy(Get(nlu, "to")) THEN Get(nlu, "to") ELSE JStr(<<>>)

chartFetchGuard_FromOnly(nlu, hasPool) ==
    /\ hasPool
    /\ Get(nlu, "asset_urn").t = "str"
    /\ Truthy(resolveFrom(nlu))

\* The condition under which maybeGetChartData calls
\* fetchSeriesFromPostgres, once wants_chart and asset_urn are truthy.
chartFetchGuard(nlu, hasPool) ==
    /\ hasPool
    /\ Get(nlu, "asset_urn").t = "str"
    /\ Truthy(resolveFrom(nlu))
    /\ Truthy(resolveTo(nlu))

\* maybeGetChartData after the classifier produced d: "raise" (the
\* classifier rejected, or a property of null was read), "null", or "fetch".
maybeGetChartData(d, hasPool) ==
    IF d.raised THEN "raise"
    ELSE IF d.value.t \in {"null", "undef"} THEN "raise"
    ELSE IF ~Truthy(Get(d.value, "wants_chart"))
            \/ ~Truthy(Get(d.value, "asset_urn")) THEN "null"
    ELSE IF chartFetchGuard(d.value, hasPool) THEN "fetch"
    ELSE "null"

\* The arguments maybeGetChartData passes to fetchSeriesFromPostgres.
chartFetchArgs(nlu) ==
    [assetUrn |-> Get(nlu, "asset_urn"),
     metric |-> Coalesce(Get(nlu, "metric"), JUndef),
     from |-> resolveFrom(nlu),
     to |-> resolveTo(nlu)]

NoArgs == [assetUrn |-> JUndef, metric |-> JUndef, from |-> JUndef, to |-> JUndef]

\* The outcome of pgPool.query / axios.get: it rejects, or resolves with rows.
QueryFailed == [ok |-> FALSE, rows |-> <<>>]
QueryRows(rows) == [ok |-> TRUE, rows |-> rows]

JArr(items) == [t |-> "arr", items |-> items]

\* rows.map(r => ({t: new Date(r.observedAt).toISOString(), v: Number(r.value)}))
\* inside the try block: toISOString throws on an invalid date, and then
\* series keeps its initial value [].
seriesOfRows(q) ==
    IF ~q.ok THEN <<>>
    ELSE IF \E i \in 1..Len(q.rows) : ~q.rows[i].validDate THEN <<>>
    ELSE [i \in 1..Len(q.rows) |-> [t |-> q.rows[i].observedAt, v |-> q.rows[i].value]]

fetchSeriesFromPostgres_Rethrow(args, hasPool, q) ==
    IF ~hasPool \/ ~q.ok THEN Raised
    ELSE Returned([t |-> "obj",
                   series |-> JArr(seriesOfRows(q)),
                   meta |-> [assetUrn |-> args.assetUrn, metric |-> args.metric,
                             source |-> "postgres"]])

fetchSeriesFromPostgres(args, hasPool, q) ==
    IF ~hasPool THEN Raised
    ELSE Returned([t |-> "obj",
                   series |-> JArr(seriesOfRows(q)),
                   meta |-> [assetUrn |-> args.assetUrn, metric |-> args.metric,
                             source |-> "postgres"]])

PreviewSize == 100

SeqMin(x, y) == IF x < y THEN x ELSE y
SeqMax(x, y) == IF x > y THEN x ELSE y

formatChartSummary(chart) ==
    LET items == chart.series.items
        pts == Len(items)
        vals == {items[i].v : i \in 1..pts}
    IN [summary |-> [assetUrn |-> chart.meta.assetUrn,
                     metric |-> Coalesce(chart.meta.metric, JStr(<<Ch("metric")>>)),
                     points |-> pts,
                     min |-> IF vals = {} THEN JNull
                             ELSE JNum(CHOOSE v \in vals : \A w \in vals : v <= w),
                     max |-> IF vals = {} THEN JNull
                             ELSE JNum(CHOOSE v \in vals : \A w \in vals : v >= w)],
        first10 |-> SubSeq(items, 1, SeqMin(pts, PreviewSize)),
        last10 |-> SubSeq(items, SeqMax(0, pts - PreviewSize) + 1, pts)]

chartSummaryOf_EmptyIsNull(chart) ==
    IF chart.t # "null" /\ Len(chart.series.items) > 0
    THEN LET f == formatChartSummary(chart)
         IN [t |-> "obj", reply |-> "Here's the live chart summary",
             summary |-> f.summary, data |-> chart,
             first10 |-> f.first10, last10 |-> f.last10]
    ELSE JNull

\* The branches of getChartSummaryIfAny on the chart it obtained (JNull when
\* maybeGetChartData returned null or threw):
\*   if (chart?.series) ... else if (chart?.series.length === 0) ... else null
chartSummaryOf(chart) ==
    IF chart.t # "null" /\ Truthy(chart.series)
    THEN LET f == formatChartSummary(chart)
         IN [t |-> "obj", reply |-> "Here's the live chart summary",
             summary |-> f.summary, data |-> chart,
             first10 |-> f.first10, last10 |-> f.last10]
    ELSE IF chart.t # "null" /\ Len(chart.series.items) = 0
    THEN [t |-> "obj", reply |-> "No live data available",
          summary |-> JNull, data |-> chart, first10 |-> <<>>, last10 |-> <<>>]
    ELSE JNull

\* --------------------------------------------------------- the alert step
maybeGetAlertData(d) ==
    IF d.raised THEN "raise"
    ELSE IF d.value.t \in {"null", "undef"} THEN "raise"
    ELSE IF ~Truthy(Get(d.value, "wants_alert"))
            \/ ~Truthy(Get(d.value, "asset_urn")) THEN "null"
    ELSE IF Get(d.value, "asset_urn").t = "str" THEN "fetch"
    ELSE "null"

\* let alerts = []; try { alerts = resAlerts.data.alerts || [] } catch {}
fetchAlertData(assetUrn, q) ==
    Returned([t |-> "obj",
              alerts |-> JArr(IF q.ok THEN q.rows ELSE <<>>),
              meta |-> [assetUrn |-> assetUrn, source |-> "alerta"]])

alertsDataOf_EmptyIsNull(alert) ==
    IF alert.t # "null" /\ Len(alert.alerts.items) > 0
    THEN [t |-> "obj", reply |-> "Here's the live alerts", alerts |-> alert.alerts]
    ELSE JNull

\* The branches of getAlertsDataIfAny on the alert result it obtained.
alertsDataOf(alert) ==
    IF alert.t # "null" /\ Truthy(alert.alerts)
    THEN [t |-> "obj", reply |-> "Here's the live alerts", alerts |-> alert.alerts]
    ELSE IF alert.t # "null" /\ Len(alert.alerts.items) = 0
    THEN [t |-> "obj", reply |-> "No live data available", alerts |-> alert.alerts]
    ELSE JNull

\* ----------------------------------------------------- semantic retrieval
\* question += m.content + " " for every user turn.
RECURSIVE question(_)
question(msgs) ==
    IF msgs = <<>> THEN <<>>
    ELSE (IF Head(msgs).role = "user" THEN Head(msgs).content \o <<Ws>> ELSE <<>>)
         \o question(Tail(msgs))

EmptyLabels == [t |-> "obj"]

\* s.startsWith('{') || s.startsWith('[')
StartsLikeJson(s) ==
    /\ s # <<>>
    /\ \/ Head(s) = Brace
       \/ Head(s).k = "val" /\ Head(s).v.t \in {"obj", "arr"}

coerceLabels(input) ==
    IF input.t = "obj" THEN input
    ELSE IF input.t = "str"
    THEN LET s == TrimTokens(input.s)
         IN IF StartsLikeJson(s)
            THEN IF JsonParses(s)
                 THEN (IF JsonValue(s).t \in {"obj", "arr"} THEN JsonValue(s)
                       ELSE EmptyLabels)
                 ELSE EmptyLabels
            ELSE EmptyLabels
    ELSE EmptyLabels

Digit == <<"0", "1", "2", "3", "4", "5", "6", "7", "8", "9">>

\* The decimal text of n, 0 <= n < 100.
DecimalText(n) ==
    IF n < 10 THEN <<Ch(Digit[n + 1])>>
    ELSE <<Ch(Digit[(n \div 10) + 1]), Ch(Digit[(n % 10) + 1])>>

RECURSIVE JoinWith(_, _)
JoinWith(parts, sep) ==
    IF parts = <<>> THEN <<>>
    ELSE IF Len(parts) = 1 THEN Head(parts)
    ELSE Head(parts) \o sep \o JoinWith(Tail(parts), sep)

\* The text of a hit: labels.text coerced to a string.
hitText(hit) ==
    LET textVal == Get(coerceLabels(Get(hit, "labels")), "text")
    IN CASE textVal.t \in {"null", "undef"} -> <<>>
         [] textVal.t = "str" -> textVal.s
         [] textVal.t = "arr" -> JoinWith(textVal.items, <<Ws>>)
         [] textVal.t = "obj" -> <<Val(textVal)>>
         [] textVal.t = "num" -> DecimalText(textVal.n)
         [] OTHER -> <<Ch("?")>>

\* `[S${i + 1}] ${text.trim()}` for the hit at 0-based index i = n - 1.
sourceEntry(n, hit) ==
    <<Ch("["), Ch("S")>> \o DecimalText(n) \o <<Ch("]"), Ws>> \o TrimTokens(hitText(hit))

MinEntryLength == 4

keepEntry(s) == Len(s) > MinEntryLength

ContextSeparator == <<Ws, Ws, Ch("-"), Ch("-"), Ch("-"), Ch("-"), Ch("-"), Ws, Ws>>

\* contextText of milvusSearch for the hits the search returned.
contextTextOf(hits) ==
    JoinWith(SelectSeq([n \in 1..Len(hits) |-> sourceEntry(n, hits[n])], keepEntry),
             ContextSeparator)

\* ------------------------------------------------------- answer synthesis
MAX_MESSAGES == 10

recentMessages_FirstTurns(msgs) == SubSeq(msgs, 1, SeqMin(Len(msgs), MAX_MESSAGES))

\* messages.slice(-MAX_MESSAGES)
recentMessages(msgs) ==
    SubSeq(msgs, SeqMax(Len(msgs) - MAX_MESSAGES, 0) + 1, Len(msgs))

PromptText == <<Ch("You are XANA")>>

ContextHeader == <<Ws, Ws, Ch("Context for the question:"), Ws, Ws>>

\* systemPrompt after  content += `\n\nContext for the question:\n\n${contextText}`
systemPrompt(ctx) ==
    [role |-> "system", content |-> PromptText \o ContextHeader \o ctx]

\* flattenChatHistoryToString: the turns with non-blank content, each as the
\* line `${role}: ${content.trim()}`; the result is the sequence of the
\* lines that join('\n') concatenates.
keepTurn(m) == Len(TrimTokens(m.content)) > 0

flattenChatHistoryToString(msgs) ==
    LET kept == SelectSeq(msgs, keepTurn)
    IN [i \in 1..Len(kept) |-> [role |-> kept[i].role, text |-> TrimTokens(kept[i].content)]]

\* reply = r.choices[0]?.message.content ?? ... ?? 'No output_text.'
\* (the middle operand is reached only when content is null or undefined,
\* and is then undefined itself).
replyOf(content) == Coalesce(content, JStr(<<Ch("No output_text.")>>))

\* ------------------------------------------------------------------ inputs
Sample == <<"c1", "c2", "c3", "c4", "c5", "c6", "c7", "c8", "c9", "c10",
            "c11", "c12", "c13", "c14", "c15", "c16">>

Patterns == {"dialogue", "noUser", "systemFirst"}

RoleAt(pattern, i) ==
    CASE pattern = "dialogue" -> IF i % 2 = 1 THEN "user" ELSE "assistant"
      [] pattern = "noUser" -> IF i % 2 = 1 THEN "assistant" ELSE "tool"
      [] OTHER -> IF i = 1 THEN "system"
                  ELSE IF i % 2 = 0 THEN "user" ELSE "assistant"

\* Turn i carries the one character Sample[i]; turn p (if any) is blank
\* instead, and the turn before it is padded with white space.
ContentAt(i, p) ==
    IF i = p THEN <<Ws, Ws>>
    ELSE IF i + 1 = p THEN <<Ws, Ch(Sample[i]), Ws>>
    ELSE <<Ch(Sample[i])>>

Conversation(n, pattern, p) ==
    [i \in 1..n |-> [role |-> RoleAt(pattern, i), content |-> ContentAt(i, p)]]

Conversations ==
    UNION {{Conversation(n, pat, p) : pat \in Patterns, p \in 0..n} : n \in 0..MaxTurns}

Urn == JStr(<<Ch("urn:iff:asset:42")>>)
FromIso == JStr(<<Ch("2025-08-13T12:36:04.868Z")>>)
ToIso == JStr(<<Ch("2025-08-14T12:36:04.868Z")>>)
Temperature == JStr(<<Ch("temperature")>>)
Last24h == [t |-> "obj", value |-> 24, unit |-> "h"]

ChartObj(w, u, m, l, f, t) ==
    [t |-> "obj", wants_chart |-> JBool(w), asset_urn |-> u, metric |-> m,
     last |-> l, from |-> f, to |-> t]

ChartIntentObjs ==
    {ChartObj(TRUE, u, Temperature, l, f, t) :
        u \in {JNull, Urn, JNum(42)}, l \in {JNull, Last24h},
        f \in {JNull, FromIso}, t \in {JNull, ToIso}}
    \cup {ChartObj(TRUE, Urn, JNull, JNull, FromIso, ToIso),
          ChartObj(TRUE, Urn, JNull, JNull, JStr(<<>>), ToIso),
          ChartObj(FALSE, JNull, JNull, JNull, JNull, JNull),
          ChartObj(FALSE, Urn, Temperature, JNull, FromIso, ToIso)}

AlertObj(w, u) == [t |-> "obj", wants_alert |-> JBool(w), asset_urn |-> u]

AlertIntentObjs == {AlertObj(w, u) : w \in BOOLEAN, u \in {JNull, Urn, JNum(42)}}

\* The ways a completion presents one object o, and outputs that hold no
\* object at all.
Presentations(o) ==
    {JStr(<<Fence, JsonWord, Ws, Val(o), Ws, Fence>>),
     JStr(<<Fence, Val(o), Fence>>),
     JStr(<<Ws, Val(o), Ws>>),
     JStr(<<Txt, Ws, Fence, JsonWord, Ws, Val(o), Ws, Fence>>),
     JStr(<<Val(o), Ws, Txt>>),
     JStr(<<Fence, JsonWord, Ws, Val(o)>>),
     [t |-> "arr", parts |-> <<<<>>, <<Val(o)>>>>],
     [t |-> "arr", parts |-> <<<<Txt>>, <<Val(o)>>>>],
     o}

NoObjectContents ==
    {JStr(<<Txt>>), JStr(<<>>), JStr(<<Fence, Fence>>), JStr(<<Brace>>), JUndef,
     JStr(<<Val(JNull)>>), JStr(<<Val(JNum(42))>>)}

ChartContents ==
    {JStr(<<Val(o)>>) : o \in ChartIntentObjs}
    \cup Presentations(ChartObj(TRUE, Urn, Temperature, JNull, FromIso, ToIso))
    \cup Presentations(ChartObj(TRUE, Urn, Temperature, Last24h, JNull, JNull))
    \cup NoObjectContents

AlertContents ==
    {JStr(<<Val(o)>>) : o \in AlertIntentObjs}
    \cup Presentations(AlertObj(TRUE, Urn))
    \cup NoObjectContents

ChartCompletions == {Rejected} \cup {Resolved(c) : c \in ChartContents}
AlertCompletions == {Rejected} \cup {Resolved(c) : c \in AlertContents}

\* A response body without a choices array.
NoChoices == [t |-> "absent"]

AnswerCompletions ==
    {Rejected, Resolved(JStr(<<Ch("answer")>>)), Resolved(JNull),
     Resolved(NoChoices)}

Instants == <<"t1", "t2", "t3", "t4">>

Row(i, valid) == [observedAt |-> Instants[i], validDate |-> valid, value |-> i]

SeriesQueries ==
    {QueryFailed}
    \cup {QueryRows([i \in 1..n |-> Row(i, TRUE)]) : n \in 0..MaxRows}
    \cup {QueryRows([i \in 1..n |-> Row(i, i < n)]) : n \in 1..MaxRows}

AlertRecord(i) == [severity |-> "major", status |-> "open", createTime |-> Instants[i]]

AlertQueries ==
    {QueryFailed} \cup {QueryRows([i \in 1..n |-> AlertRecord(i)]) : n \in 0..MaxRows}

Hit(labels) == [t |-> "obj", labels |-> labels]

HitKinds ==
    {Hit([t |-> "obj", text |-> JStr(<<Ch("x"), Ws>>)]),
     Hit(JStr(<<Val([t |-> "obj", text |-> JNum(7)])>>)),
     Hit(JStr(<<Brace>>))}

RECURSIVE SeqsUpTo(_, _)
SeqsUpTo(S, n) ==
    IF n = 0 THEN {<<>>}
    ELSE SeqsUpTo(S, n - 1)
         \cup {Append(q, x) : q \in {r \in SeqsUpTo(S, n - 1) : Len(r) = n - 1}, x \in S}

HitLists == SeqsUpTo(HitKinds, MaxHits)

\* ------------------------------------------------------------------- state
VARIABLES
    messages,      \* the request's messages[]
    hasPgPool,     \* this.pgPool is set (PGHOST was configured)
    pc,            \* the await handleQuery is suspended at
    calls,         \* the external calls made for the request, in order
    chartR,        \* what the chart classification call produced
    chartNlu,      \* what detectChartIntentWithLLM produced
    fetchArgs,     \* the arguments of fetchSeriesFromPostgres
    seriesQuery,   \* what pgPool.query produced
    seriesResult,  \* what fetchSeriesFromPostgres produced
    chart,         \* the local chart of getChartSummaryIfAny
    alertR,        \* what the alert classification call produced
    alertNlu,      \* what detectAlertIntentWithLLM produced
    alertQuery,    \* what axios.get on the alert service produced
    alertResult,   \* what fetchAlertData produced
    alert,         \* the local alert of getAlertsDataIfAny
    embedding,     \* the input of createEmbeddings and what it produced
    sources,       \* the hits of milvusservice.search
    contextText,   \* the contextText of milvusSearch
    sent,          \* the content of the answer-synthesis request
    answerR,       \* what the answer-synthesis call produced
    a,             \* handleQuery's a: what getChartSummaryIfAny returned
    b,             \* handleQuery's b: what getAlertsDataIfAny returned
    result         \* what handleQuery produced

\* RagIngestService.chunkByTokens
VARIABLES
    text,          \* chunkByTokens' text
    minTokens,     \* its minTokens (tokenChunkMin)
    maxTokens,     \* its maxTokens (tokenChunkMax)
    overlap,       \* its overlap (tokenOverlap)
    words,         \* its words
    chunks,        \* its chunks
    start,         \* its start
    end,           \* the end of its latest window
    cpc            \* where chunkByTokens is: "idle", "loop" or "returned"

chunkVars == <<text, minTokens, maxTokens, overlap, words, chunks, start, end, cpc>>

\* fit of IonosService.createEmbeddings
VARIABLES
    served,        \* d.embedding, a vector of the embeddings response
    targetDim,     \* createEmbeddings' targetDim
    fitted,        \* what fit returned
    fpc            \* where fit is: "idle" or "returned"

fitVars == <<served, targetDim, fitted, fpc>>

\* RagIngestService.processPdfs
VARIABLES
    urls,               \* processPdfs' urls
    pdfConcurrency,     \* this.pdfConcurrency
    nextUrl,            \* the position in urls of the for loop
    ppc,                \* where processPdfs is: "idle", "loop", "race",
                        \* "all" or "returned"
    pool,               \* its pool, by the URL of each promise
    awaited,            \* the promises given to the pending race / all
    wpc,                \* for every URL, where its worker is
    fetched,            \* for every URL, the bytes http.get returned
    wchunk,             \* for every URL, the position of ch in chunks
    widx,               \* for every URL, the worker's idx
    seenPdfFileHashes,  \* this.seenPdfFileHashes
    seenHashes,         \* this.seenHashes
    out                 \* processPdfs' out

pdfVars == <<urls, pdfConcurrency, nextUrl, ppc, pool, awaited, wpc, fetched,
             wchunk, widx, seenPdfFileHashes, seenHashes, out>>

\* RagIngestService.ingestFolder
VARIABLES
    targets,       \* the files listJsonFiles found
    ipc,           \* the await ingestFolder is suspended at
    fileIdx,       \* the position in targets of the for loop
    skipped,       \* the positions of the files skipped on a read or parse error
    parentDocs,    \* ingestFolder's parentDocs, by the record each promises
    childDocs,     \* its childDocs, likewise
    pdfUrls,       \* its pdfUrls, in insertion order
    uploaded,      \* allDocs, the docs given to milvus.addDocuments
    run            \* the number of calls of ingestFolder on this service

folderVars == <<targets, ipc, fileIdx, skipped, parentDocs, childDocs, pdfUrls,
                uploaded, run>>

\* RagIngestService.collectPdfUrls
VARIABLES
    doc,           \* collectPdfUrls' obj
    collected,     \* its set
    kpc            \* where collectPdfUrls is: "idle" or "returned"

collectVars == <<doc, collected, kpc>>

\* MilvusRagService.getOrCreateCollectionName
VARIABLES
    wanted,        \* its arguments name, dim and metricType
    existing,      \* the collections the vector store has
    requests,      \* the requests sent to the vector store, in order
    hasReply,      \* what the collections/has request produced
    gpc,           \* the await getOrCreateCollectionName is suspended at
    named          \* what getOrCreateCollectionName produced

milvusVars == <<wanted, existing, requests, hasReply, gpc, named>>

\* VectorMappingService.getClient and listMappings
VARIABLES
    client,        \* this.client: 0 for null, else the MongoClient made
    clients,       \* for every MongoClient made, how far its connect() is
    lpc,           \* for every caller of listMappings, where it is
    held           \* for every caller, the client getClient returned to it

mongoVars == <<client, clients, lpc, held>>

\* The state of the other services, which handleQuery does not touch.
ingestion == <<chunkVars, fitVars, pdfVars, folderVars, collectVars,
               milvusVars, mongoVars>>

vars == <<ingestion, messages, hasPgPool, pc, calls, chartR, chartNlu, fetchArgs,
          seriesQuery, seriesResult, chart, alertR, alertNlu, alertQuery,
          alertResult, alert, embedding, sources, contextText, sent, answerR,
          a, b, result>>

chartLocals == <<chartR, chartNlu, fetchArgs, seriesQuery, seriesResult, chart>>
alertLocals == <<alertR, alertNlu, alertQuery, alertResult, alert>>
searchLocals == <<embedding, sources, contextText>>

Pending == [status |-> "pending", value |-> JNull, error |-> "none"]
Replied(v) == [status |-> "returned", value |-> v, error |-> "none"]
Thrown(e) == [status |-> "thrown", value |-> JNull, error |-> e]

\* The values of locals that have not been assigned: no store query made,
\* no function run.
NotAsked == [ok |-> FALSE, rows |-> <<[none |-> TRUE]>>]
NotRun == [raised |-> FALSE, value |-> JNull]

\* chunkByTokens has not been called.
ChunkIdle ==
    /\ text = <<>>
    /\ minTokens = 0
    /\ maxTokens = 0
    /\ overlap = 0
    /\ words = <<>>
    /\ chunks = <<>>
    /\ start = 0
    /\ end = 0
    /\ cpc = "idle"

\* fit has not been called.
FitIdle ==
    /\ served = <<>>
    /\ targetDim = 0
    /\ fitted = <<>>
    /\ fpc = "idle"

\* processPdfs has not been called.
PdfIdle ==
    /\ urls = <<>>
    /\ pdfConcurrency = 1
    /\ nextUrl = 1
    /\ ppc = "idle"
    /\ pool = <<>>
    /\ awaited = {}
    /\ wpc = <<>>
    /\ fetched = <<>>
    /\ wchunk = <<>>
    /\ widx = <<>>
    /\ seenPdfFileHashes = {}
    /\ seenHashes = {}
    /\ out = <<>>

\* ingestFolder has not been called.
FolderIdle ==
    /\ targets = <<>>
    /\ ipc = "idle"
    /\ fileIdx = 0
    /\ skipped = {}
    /\ parentDocs = <<>>
    /\ childDocs = <<>>
    /\ pdfUrls = <<>>
    /\ uploaded = <<>>
    /\ run = 0

\* collectPdfUrls has not been called.
CollectIdle ==
    /\ doc = JNull
    /\ collected = {}
    /\ kpc = "idle"

\* getOrCreateCollectionName has not been called.
MilvusIdle ==
    /\ wanted = <<>>
    /\ existing = {}
    /\ requests = <<>>
    /\ hasReply = "none"
    /\ gpc = "idle"
    /\ named = "none"

\* listMappings has not been called.
MongoIdle ==
    /\ client = 0
    /\ clients = <<>>
    /\ lpc = <<>>
    /\ held = <<>>

\* None of the services below takes part.
OthersIdle == FolderIdle /\ CollectIdle /\ MilvusIdle /\ MongoIdle

\* The locals of a handleQuery that has not run yet.
QueryLocalsInit ==
    /\ calls = <<>>
    /\ chartR = NoCall
    /\ chartNlu = NotRun
    /\ fetchArgs = NoArgs
    /\ seriesQuery = NotAsked
    /\ seriesResult = NotRun
    /\ chart = JNull
    /\ alertR = NoCall
    /\ alertNlu = NotRun
    /\ alertQuery = NotAsked
    /\ alertResult = NotRun
    /\ alert = JNull
    /\ embedding = [input |-> <<>>, outcome |-> "none"]
    /\ sources = <<>>
    /\ contextText = <<>>
    /\ sent = <<>>
    /\ answerR = NoCall
    /\ a = JUndef
    /\ b = JUndef
    /\ result = Pending

\* No request is being handled.
QueryIdle ==
    /\ messages = <<>>
    /\ hasPgPool = FALSE
    /\ pc = "idle"
    /\ QueryLocalsInit

Init ==
    /\ messages \in Conversations
    /\ hasPgPool \in BOOLEAN
    /\ pc = "start"
    /\ QueryLocalsInit
    /\ ChunkIdle /\ FitIdle /\ PdfIdle /\ OthersIdle

tryChart_Rethrow(plan) == plan

\* try { chart = await this.maybeGetChartData(messages) } catch {}: a
\* rejection leaves chart null.
tryChart(plan) == IF plan = "raise" THEN "null" ELSE plan

tryAlert(plan) == IF plan = "raise" THEN "null" ELSE plan

afterChartStep_NoReturn(v) == "alert"

afterAlertStep_NoReturn(v) == "embed"

\* const a = await this.getChartSummaryIfAny(messages);
\* if (a !== null) return a;      (likewise b and getAlertsDataIfAny)
afterChartStep(v) == IF v # JNull THEN "done" ELSE "alert"

afterAlertStep(v) == IF v # JNull THEN "done" ELSE "embed"

\* handleQuery receiving v from getChartSummaryIfAny.
FinishChart(v) ==
    /\ a' = v
    /\ b' = b
    /\ pc' = afterChartStep(v)
    /\ result' = IF afterChartStep(v) = "done" THEN Replied(v) ELSE result

\* handleQuery receiving v from getAlertsDataIfAny.
FinishAlert(v) ==
    /\ a' = a
    /\ b' = v
    /\ pc' = afterAlertStep(v)
    /\ result' = IF afterAlertStep(v) = "done" THEN Replied(v) ELSE result

\* handleQuery up to its first await: the messages[] check.
Validate ==
    /\ pc = "start"
    /\ IF Len(messages) = 0
       THEN /\ pc' = "done"
            /\ result' = Thrown("BadRequestException")
       ELSE /\ pc' = "chart"
            /\ result' = result
    /\ UNCHANGED <<ingestion, messages, hasPgPool, calls, chartLocals, alertLocals,
                   searchLocals, sent, answerR, a, b>>

\* getChartSummaryIfAny up to the store query: the classification call of
\* detectChartIntentWithLLM and the routing of maybeGetChartData.
ChartIntentStep ==
    /\ pc = "chart"
    /\ IF lastUser(messages) = 0
       THEN /\ FinishChart(chartSummaryOf(JNull))
            /\ UNCHANGED <<calls, chartLocals>>
       ELSE \E r \in ChartCompletions :
              LET d == detectChartIntentWithLLM(r)
                  plan == tryChart(maybeGetChartData(d, hasPgPool))
              IN /\ calls' = Append(calls, "chatCompletion:chart")
                 /\ chartR' = r
                 /\ chartNlu' = d
                 /\ UNCHANGED <<seriesQuery, seriesResult, chart>>
                 /\ CASE plan = "fetch" ->
                           /\ fetchArgs' = chartFetchArgs(d.value)
                           /\ pc' = "series"
                           /\ UNCHANGED <<a, b, result>>
                      [] plan = "null" ->
                           /\ fetchArgs' = fetchArgs
                           /\ FinishChart(chartSummaryOf(JNull))
                      [] OTHER ->
                           /\ fetchArgs' = fetchArgs
                           /\ pc' = "done"
                           /\ result' = Thrown("Error")
                           /\ UNCHANGED <<a, b>>
    /\ UNCHANGED <<ingestion, messages, hasPgPool, alertLocals, searchLocals, sent,
                   answerR>>

\* fetchSeriesFromPostgres and the rest of getChartSummaryIfAny.
FetchSeriesStep ==
    /\ pc = "series"
    /\ \E q \in SeriesQueries :
         LET f == fetchSeriesFromPostgres(fetchArgs, hasPgPool, q)
             c == IF f.raised THEN JNull ELSE f.value
         IN /\ calls' = Append(calls, "pgPool.query")
            /\ seriesQuery' = q
            /\ seriesResult' = f
            /\ chart' = c
            /\ FinishChart(chartSummaryOf(c))
    /\ UNCHANGED <<ingestion, messages, hasPgPool, chartR, chartNlu, fetchArgs,
                   alertLocals, searchLocals, sent, answerR>>

\* The locals of getChartSummaryIfAny once it has returned.
ChartLocalsGone ==
    /\ chartR' = NoCall
    /\ chartNlu' = NotRun
    /\ fetchArgs' = NoArgs
    /\ seriesQuery' = NotAsked
    /\ seriesResult' = NotRun
    /\ chart' = JNull

AlertLocalsGone ==
    /\ alertR' = NoCall
    /\ alertNlu' = NotRun
    /\ alertQuery' = NotAsked
    /\ alertResult' = NotRun
    /\ alert' = JNull

\* getAlertsDataIfAny up to the alert-service query.
AlertIntentStep ==
    /\ pc = "alert"
    /\ ChartLocalsGone
    /\ IF lastUser(messages) = 0
       THEN /\ FinishAlert(alertsDataOf(JNull))
            /\ UNCHANGED <<calls, alertLocals>>
       ELSE \E r \in AlertCompletions :
              LET d == detectAlertIntentWithLLM(r)
                  plan == tryAlert(maybeGetAlertData(d))
              IN /\ calls' = Append(calls, "chatCompletion:alert")
                 /\ alertR' = r
                 /\ alertNlu' = d
                 /\ UNCHANGED <<alertQuery, alertResult, alert>>
                 /\ CASE plan = "fetch" ->
                           /\ pc' = "alerts"
                           /\ UNCHANGED <<a, b, result>>
                      [] plan = "null" ->
                           FinishAlert(alertsDataOf(JNull))
                      [] OTHER ->
                           /\ pc' = "done"
                           /\ result' = Thrown("Error")
                           /\ UNCHANGED <<a, b>>
    /\ UNCHANGED <<ingestion, messages, hasPgPool, searchLocals, sent, answerR>>

\* fetchAlertData and the rest of getAlertsDataIfAny.
FetchAlertsStep ==
    /\ pc = "alerts"
    /\ \E q \in AlertQueries :
         LET f == fetchAlertData(Get(alertNlu.value, "asset_urn"), q)
             c == IF f.raised THEN JNull ELSE f.value
         IN /\ calls' = Append(calls, "axios.get")
            /\ alertQuery' = q
            /\ alertResult' = f
            /\ alert' = c
            /\ FinishAlert(alertsDataOf(c))
    /\ UNCHANGED <<ingestion, messages, hasPgPool, chartLocals, alertR, alertNlu,
                   searchLocals, sent, answerR>>

\* milvusSearch, first await: createEmbeddings({input: [question]}) and
\* embeddingForQuestion.data[0].embedding.  Nothing catches a rejection or
\* the TypeError on an empty data[].
EmbedStep ==
    /\ pc = "embed"
    /\ AlertLocalsGone
    /\ calls' = Append(calls, "createEmbeddings")
    /\ \E e \in {"rejected", "empty", "vector"} :
         /\ embedding' = [input |-> question(messages), outcome |-> e]
         /\ IF e = "vector"
            THEN /\ pc' = "search"
                 /\ result' = result
            ELSE /\ pc' = "done"
                 /\ result' = Thrown("Error")
    /\ UNCHANGED <<ingestion, messages, hasPgPool, chartLocals, sources, contextText, sent,
                   answerR, a, b>>

\* milvusSearch, second await: milvusservice.search and the context text.
SearchStep ==
    /\ pc = "search"
    /\ calls' = Append(calls, "milvus.search")
    /\ \/ /\ pc' = "done"
          /\ result' = Thrown("Error")
          /\ UNCHANGED <<sources, contextText>>
       \/ \E hits \in HitLists :
            /\ sources' = hits
            /\ contextText' = contextTextOf(hits)
            /\ pc' = "complete"
            /\ result' = result
    /\ UNCHANGED <<ingestion, messages, hasPgPool, chartLocals, alertLocals, embedding, sent,
                   answerR, a, b>>

answerOutcome_Swallow(r) ==
    Replied([t |-> "obj",
             reply |-> IF r.ok /\ r.content.t # "absent"
                       THEN replyOf(r.content) ELSE replyOf(JNull)])

\* try { r = await chatCompletion(...); reply = r.choices[0]?.message.content
\* ?? ...; return { reply } } catch (e) { throw new
\* InternalServerErrorException('Failed to call LLM') }: a rejected call, and
\* the TypeError of indexing the choices a response lacks, both end in the
\* catch.
answerOutcome(r) ==
    IF r.ok /\ r.content.t # "absent"
    THEN Replied([t |-> "obj", reply |-> replyOf(r.content)])
    ELSE Thrown("InternalServerErrorException")

\* The answer-synthesis call of handleQuery and its try / catch.
CompleteStep ==
    /\ pc = "complete"
    /\ calls' = Append(calls, "chatCompletion:answer")
    /\ sent' = flattenChatHistoryToString(
                   <<systemPrompt(contextText)>> \o recentMessages(messages))
    /\ \E r \in AnswerCompletions :
         /\ answerR' = r
         /\ result' = answerOutcome(r)
    /\ pc' = "done"
    /\ UNCHANGED <<ingestion, messages, hasPgPool, chartLocals, alertLocals, searchLocals,
                   a, b>>

Next ==
    \/ Validate
    \/ ChartIntentStep
    \/ FetchSeriesStep
    \/ AlertIntentStep
    \/ FetchAlertsStep
    \/ EmbedStep
    \/ SearchStep
    \/ CompleteStep

Spec == Init /\ [][Next]_vars

\* ================================================== chunkByTokens (ingest)
\* A text is a sequence of characters; a word is a run of characters that
\* are not whitespace.
Space == " "
Newline == "\n"
Whitespace == {Space, Newline}

\* str.split(/\s+/).filter(Boolean): the runs of characters between
\* whitespace, cur being the run read so far and acc the runs before it.
splitWords(str) ==
    LET RECURSIVE splitFrom(_, _, _)
        splitFrom(rest, cur, acc) ==
            IF rest = <<>> THEN (IF cur = <<>> THEN acc ELSE Append(acc, cur))
            ELSE IF Head(rest) \in Whitespace
            THEN splitFrom(Tail(rest), <<>>,
                           IF cur = <<>> THEN acc ELSE Append(acc, cur))
            ELSE splitFrom(Tail(rest), Append(cur, Head(rest)), acc)
    IN splitFrom(str, <<>>, <<>>)

\* ws.join(' ')
RECURSIVE joinWords(_)
joinWords(ws) ==
    IF ws = <<>> THEN <<>>
    ELSE IF Len(ws) = 1 THEN ws[1]
    ELSE ws[1] \o <<Space>> \o joinWords(Tail(ws))

\* ws.slice(lo, hi), with 0-based lo and hi
sliceWords(ws, lo, hi) ==
    LET top == SeqMin(hi, Len(ws))
    IN IF top <= lo THEN <<>> ELSE SubSeq(ws, lo + 1, top)

\* str.lastIndexOf('\n\n'), 0-based, -1 when there is none
lastIndexOfBreak(str) ==
    LET at == {i \in 1..(Len(str) - 1) : str[i] = Newline /\ str[i + 1] = Newline}
    IN IF at = {} THEN -1 ELSE (CHOOSE i \in at : \A j \in at : j <= i) - 1

chunkPiece_FirstWord(ws, lo, hi) ==
    IF sliceWords(ws, lo, hi) = <<>> THEN <<>> ELSE ws[lo + 1]

\* words.slice(start, end).join(' ').trim()
chunkPiece(ws, lo, hi) ==
    LET RECURSIVE trimStart(_)
        trimStart(str) ==
            IF str # <<>> /\ Head(str) \in Whitespace
            THEN trimStart(Tail(str)) ELSE str
        RECURSIVE trimEnd(_)
        trimEnd(str) ==
            IF str # <<>> /\ str[Len(str)] \in Whitespace
            THEN trimEnd(SubSeq(str, 1, Len(str) - 1)) ELSE str
    IN trimEnd(trimStart(joinWords(sliceWords(ws, lo, hi))))

\* The end of the window that starts at lo: target = Math.min(words.length,
\* start + maxTokens), or the last paragraph
\* break ("\n\n") of the window's text when at least mn words precede it.
windowEnd(ws, lo, mn, mx) ==
    LET target == SeqMin(Len(ws), lo + mx)
        windowText == joinWords(sliceWords(ws, lo, target))
        localBreak == lastIndexOfBreak(windowText)
        uptoCount == Len(splitWords(SubSeq(windowText, 1, localBreak)))
    IN IF localBreak > -1 /\ uptoCount >= mn THEN lo + uptoCount ELSE target

nextStart_NoOverlap(hi, ov) == hi

nextStart_Skip(hi, ov) == SeqMax(0, hi - ov) + 1

\* start = Math.max(0, end - overlap)
nextStart(hi, ov) == SeqMax(0, hi - ov)

\* ------------------------------------------------- inputs of chunkByTokens
\* The texts: n distinct words "wa", "wb", ... with, between word i and
\* word i + 1, a space, a paragraph break, the two in turn, or mixed
\* whitespace with more of it before the first and after the last word.
Texts ==
    LET Letters == <<"a", "b", "c", "d", "e", "f", "g">>
        Separator(layout, i) ==
            CASE layout = "spaces" -> <<Space>>
              [] layout = "paragraphs" -> <<Newline, Newline>>
              [] layout = "mixed" ->
                    IF i % 2 = 1 THEN <<Newline, Newline>> ELSE <<Space>>
              [] OTHER -> <<Space, Newline, Space>>
        RECURSIVE WordsFrom(_, _, _)
        WordsFrom(layout, i, n) ==
            IF i > n THEN <<>>
            ELSE <<"w", Letters[i]>>
                 \o (IF i < n THEN Separator(layout, i) ELSE <<>>)
                 \o WordsFrom(layout, i + 1, n)
        TextOf(layout, n) ==
            IF layout = "padded"
            THEN <<Newline, Space>> \o WordsFrom(layout, 1, n)
                 \o <<Space, Newline, Newline>>
            ELSE WordsFrom(layout, 1, n)
    IN {TextOf(layout, n) :
           layout \in {"spaces", "paragraphs", "mixed", "padded"},
           n \in 0..MaxWords}

TokenCounts == 0..MaxTokenCfg

\* -------------------------------------------------- chunkByTokens, by step
\* The call up to the loop: words, chunks and the test of words.length.
ChunkCall ==
    /\ cpc = "idle"
    /\ words' = splitWords(text)
    /\ chunks' = <<>>
    /\ start' = 0
    /\ end' = 0
    /\ cpc' = IF words' = <<>> THEN "returned" ELSE "loop"
    /\ UNCHANGED <<text, minTokens, maxTokens, overlap>>

\* One pass of while (start < words.length).  A call that has pushed more
\* chunks than there are words has come back to a cursor position it was at
\* before and never returns; it is not followed further.
ChunkIterate ==
    /\ cpc = "loop"
    /\ Len(chunks) <= Len(words)
    /\ IF start < Len(words)
       THEN LET hi == windowEnd(words, start, minTokens, maxTokens)
                piece == chunkPiece(words, start, hi)
            IN /\ end' = hi
               /\ chunks' = IF piece # <<>> THEN Append(chunks, piece) ELSE chunks
               /\ IF hi >= Len(words)
                  THEN /\ cpc' = "returned"
                       /\ start' = start
                  ELSE /\ cpc' = "loop"
                       /\ start' = nextStart(hi, overlap)
       ELSE /\ cpc' = "returned"
            /\ UNCHANGED <<chunks, start, end>>
    /\ UNCHANGED <<text, minTokens, maxTokens, overlap, words>>

InitChunk ==
    /\ text \in Texts
    /\ minTokens \in TokenCounts
    /\ maxTokens \in TokenCounts
    /\ overlap \in TokenCounts
    /\ words = <<>>
    /\ chunks = <<>>
    /\ start = 0
    /\ end = 0
    /\ cpc = "idle"
    /\ QueryIdle /\ FitIdle /\ PdfIdle /\ OthersIdle

\* The variables of the services that are not the ingestion service's
\* chunkByTokens, processPdfs or createEmbeddings.
otherVars == <<folderVars, collectVars, milvusVars, mongoVars>>

queryVars == <<messages, hasPgPool, pc, calls, chartR, chartNlu, fetchArgs,
               seriesQuery, seriesResult, chart, alertR, alertNlu, alertQuery,
               alertResult, alert, embedding, sources, contextText, sent,
               answerR, a, b, result>>

NextChunk ==
    \/ ChunkCall /\ UNCHANGED <<queryVars, fitVars, pdfVars, otherVars>>
    \/ ChunkIterate /\ UNCHANGED <<queryVars, fitVars, pdfVars, otherVars>>

SpecChunk == InitChunk /\ [][NextChunk]_vars

\* chunkByTokens is one synchronous call: once entered it keeps running.
SpecChunkFair == SpecChunk /\ WF_vars(NextChunk)

\* ================================================ fit (createEmbeddings)
fit_NoTruncate(vv, dim) ==
    IF Len(vv) >= dim THEN vv
    ELSE [i \in 1..dim |-> IF i <= Len(vv) THEN vv[i] ELSE 0]

\* if (v.length === targetDim) return v;
\* if (v.length > targetDim) return v.slice(0, targetDim);
\* const out = new Array(targetDim).fill(0);
\* for (let i = 0; i < v.length; i++) out[i] = v[i];
fit(vv, dim) ==
    IF Len(vv) = dim THEN vv
    ELSE IF Len(vv) > dim THEN SubSeq(vv, 1, dim)
    ELSE LET zeros == [i \in 1..dim |-> 0]
         IN [i \in 1..dim |-> IF i <= Len(vv) THEN vv[i] ELSE zeros[i]]

\* embedding: fit(d.embedding)
FitStep ==
    /\ fpc = "idle"
    /\ fitted' = fit(served, targetDim)
    /\ fpc' = "returned"
    /\ UNCHANGED <<served, targetDim>>

\* A served vector of up to MaxVecLen components and a target dimension.
InitFit ==
    /\ served \in SeqsUpTo({0, 3, 5}, MaxVecLen)
    /\ targetDim \in 0..MaxDim
    /\ fitted = <<>>
    /\ fpc = "idle"
    /\ QueryIdle /\ ChunkIdle /\ PdfIdle /\ OthersIdle

NextFit == FitStep /\ UNCHANGED <<queryVars, chunkVars, pdfVars, otherVars>>

SpecFit == InitFit /\ [][NextFit]_vars

\* ===================================================== processPdfs (ingest)
\* The bytes a URL can serve.  pdfParse finds text in a manual, none in a
\* scan, and throws on a corrupt file; chunks is what chunkByTokens makes of
\* the text.
Manual == [hash |-> "h1", parse |-> "text", chunks |-> <<"p", "q">>]

Pdfs ==
    {Manual,
     [hash |-> "h2", parse |-> "text", chunks |-> <<"p", "p">>],
     [hash |-> "h3", parse |-> "empty", chunks |-> <<>>],
     [hash |-> "h4", parse |-> "throws", chunks |-> <<>>]}

NoPdf == [hash |-> "none", parse |-> "none", chunks |-> <<>>]

\* fileName = url.split('/').pop() || 'manual.pdf'
fileName(u) == IF u <= 2 THEN "manual.pdf" ELSE "guide.pdf"

\* parentId = sha256(`${fileName}:parent:${pdfFileHash}`)
pdfParentId(u, pdf) == <<fileName(u), "parent", pdf.hash>>

\* combinedHash = sha256(pdfFileHash + ':' + ch)
combinedHash(pdf, ch) == <<pdf.hash, ch>>

parentRecord(u, pdf) ==
    [kind |-> "parent", parent_id |-> pdfParentId(u, pdf), sha256 |-> <<>>,
     pdfFileHash |-> pdf.hash, sourceUrl |-> u, chunk |-> -1, text |-> "parent"]

chunkRecord(u, pdf, ch, i) ==
    [kind |-> "pdf-text", parent_id |-> pdfParentId(u, pdf),
     sha256 |-> combinedHash(pdf, ch), pdfFileHash |-> pdf.hash,
     sourceUrl |-> u, chunk |-> i, text |-> ch]

markPdfSeen_Forget(seen, h) == seen

\* this.seenPdfFileHashes.add(pdfFileHash)
markPdfSeen(seen, h) == seen \cup {h}

nextFreshChunk_NoDedup(pdf, k, seen) ==
    IF k < Len(pdf.chunks) THEN k + 1 ELSE 0

\* for (const ch of chunks) { if (this.seenHashes.has(combinedHash)) continue;
\* ...: the position, after position k, of the next chunk whose hash is not
\* in seen, 0 when there is none.
nextFreshChunk(pdf, k, seen) ==
    LET fresh == {j \in (k + 1)..Len(pdf.chunks) :
                     combinedHash(pdf, pdf.chunks[j]) \notin seen}
    IN IF fresh = {} THEN 0 ELSE CHOOSE j \in fresh : \A l \in fresh : j <= l

AllUrls == 1..MaxUrls

\* A worker that has settled: the three ways its try block returns, and
\* its catch.
Settled == {"skipped", "noText", "failed", "complete"}

\* ------------------------------------------------------------ the workers
WorkerRuns == ppc \in {"race", "all"}

\* The worker of u ends in state how; the finally of its promise takes it
\* out of the pool.
Settle(u, how) ==
    /\ wpc' = [wpc EXCEPT ![u] = how]
    /\ pool' = SelectSeq(pool, LAMBDA w : w # u)

\* The worker of u goes on to the embedChunk call of its next fresh chunk,
\* or ends when it has none.
ToNextChunk(u, pdf, k) ==
    LET j == nextFreshChunk(pdf, k, seenHashes)
    IN IF j = 0
       THEN /\ Settle(u, "complete")
            /\ UNCHANGED <<seenHashes, wchunk>>
       ELSE /\ seenHashes' = seenHashes \cup {combinedHash(pdf, pdf.chunks[j])}
            /\ wchunk' = [wchunk EXCEPT ![u] = j]
            /\ wpc' = [wpc EXCEPT ![u] = "embedChunk"]
            /\ pool' = pool

\* http.get settles: the fetch failed, or the bytes are hashed and the
\* hash is looked up in, and added to, seenPdfFileHashes.
FetchDone(u) ==
    /\ WorkerRuns
    /\ wpc[u] = "fetch"
    /\ \/ /\ Settle(u, "failed")
          /\ UNCHANGED <<fetched, seenPdfFileHashes>>
       \/ \E pdf \in Pdfs :
            /\ fetched' = [fetched EXCEPT ![u] = pdf]
            /\ IF pdf.hash \in seenPdfFileHashes
               THEN /\ Settle(u, "skipped")
                    /\ UNCHANGED seenPdfFileHashes
               ELSE /\ seenPdfFileHashes' = markPdfSeen(seenPdfFileHashes, pdf.hash)
                    /\ wpc' = [wpc EXCEPT ![u] = "parse"]
                    /\ pool' = pool
    /\ UNCHANGED <<urls, pdfConcurrency, nextUrl, ppc, awaited, wchunk, widx,
                   seenHashes, out>>

\* pdfParse settles; with text, the embedChunk call of the parent starts.
ParseDone(u) ==
    /\ WorkerRuns
    /\ wpc[u] = "parse"
    /\ CASE fetched[u].parse = "throws" -> Settle(u, "failed")
         [] fetched[u].parse = "empty" -> Settle(u, "noText")
         [] OTHER -> /\ wpc' = [wpc EXCEPT ![u] = "embedParent"]
                     /\ pool' = pool
    /\ UNCHANGED <<urls, pdfConcurrency, nextUrl, ppc, awaited, fetched, wchunk,
                   widx, seenPdfFileHashes, seenHashes, out>>

\* The embedChunk call of the parent settles: out.push(parent), then the
\* chunk loop up to its first embedChunk call.
EmbedParentDone(u) ==
    /\ WorkerRuns
    /\ wpc[u] = "embedParent"
    /\ \/ /\ Settle(u, "failed")
          /\ UNCHANGED <<out, seenHashes, wchunk>>
       \/ /\ out' = Append(out, parentRecord(u, fetched[u]))
          /\ ToNextChunk(u, fetched[u], 0)
    /\ UNCHANGED <<urls, pdfConcurrency, nextUrl, ppc, awaited, fetched, widx,
                   seenPdfFileHashes>>

\* The embedChunk call of a chunk settles: out.push(chunk), idx++, then the
\* chunk loop up to its next embedChunk call.
EmbedChunkDone(u) ==
    /\ WorkerRuns
    /\ wpc[u] = "embedChunk"
    /\ \/ /\ Settle(u, "failed")
          /\ UNCHANGED <<out, seenHashes, wchunk, widx>>
       \/ LET pdf == fetched[u]
          IN /\ out' = Append(out, chunkRecord(u, pdf, pdf.chunks[wchunk[u]], widx[u]))
             /\ widx' = [widx EXCEPT ![u] = widx[u] + 1]
             /\ ToNextChunk(u, pdf, wchunk[u])
    /\ UNCHANGED <<urls, pdfConcurrency, nextUrl, ppc, awaited, fetched,
                   seenPdfFileHashes>>

\* --------------------------------------------------------------- the pool
\* processPdfs up to its loop: if (!urls.length) return [].
ProcessPdfsCall ==
    /\ ppc = "idle"
    /\ ppc' = IF urls = <<>> THEN "returned" ELSE "loop"
    /\ UNCHANGED <<urls, pdfConcurrency, nextUrl, pool, awaited, wpc, fetched,
                   wchunk, widx, seenPdfFileHashes, seenHashes, out>>

poolFull_OffByOne(n, conc) == n > conc

\* pool.length >= this.pdfConcurrency
poolFull(n, conc) == n >= conc

\* One pass of for (const url of urls): worker(url) runs up to its await of
\* http.get, its promise is pushed to the pool, and processPdfs awaits
\* Promise.race(pool) when the pool is full.
SpawnWorker ==
    /\ ppc = "loop"
    /\ nextUrl <= Len(urls)
    /\ wpc' = [wpc EXCEPT ![urls[nextUrl]] = "fetch"]
    /\ pool' = Append(pool, urls[nextUrl])
    /\ nextUrl' = nextUrl + 1
    /\ IF poolFull(Len(pool'), pdfConcurrency)
       THEN /\ ppc' = "race"
            /\ awaited' = {pool'[i] : i \in 1..Len(pool')}
       ELSE /\ ppc' = "loop"
            /\ awaited' = awaited
    /\ UNCHANGED <<urls, pdfConcurrency, fetched, wchunk, widx,
                   seenPdfFileHashes, seenHashes, out>>

\* Promise.race(pool) settles once a promise it was given has settled.
RaceSettles ==
    /\ ppc = "race"
    /\ \E u \in awaited : wpc[u] \in Settled
    /\ ppc' = "loop"
    /\ awaited' = {}
    /\ UNCHANGED <<urls, pdfConcurrency, nextUrl, pool, wpc, fetched, wchunk,
                   widx, seenPdfFileHashes, seenHashes, out>>

\* The loop is over: await Promise.all(pool).
AwaitAll ==
    /\ ppc = "loop"
    /\ nextUrl > Len(urls)
    /\ ppc' = "all"
    /\ awaited' = {pool[i] : i \in 1..Len(pool)}
    /\ UNCHANGED <<urls, pdfConcurrency, nextUrl, pool, wpc, fetched, wchunk,
                   widx, seenPdfFileHashes, seenHashes, out>>

\* Promise.all(pool) settles once every promise it was given has settled:
\* return out.
AllSettles ==
    /\ ppc = "all"
    /\ \A u \in awaited : wpc[u] \in Settled
    /\ ppc' = "returned"
    /\ awaited' = {}
    /\ UNCHANGED <<urls, pdfConcurrency, nextUrl, pool, wpc, fetched, wchunk,
                   widx, seenPdfFileHashes, seenHashes, out>>

\* seenPdfFileHashes is a field of the service, never cleared: at a call
\* of processPdfs it holds what earlier calls added, nothing at the first.
InitPdf ==
    /\ urls \in {[i \in 1..n |-> i] : n \in 0..MaxUrls}
    /\ pdfConcurrency \in 1..MaxPool
    /\ nextUrl = 1
    /\ ppc = "idle"
    /\ pool = <<>>
    /\ awaited = {}
    /\ wpc = [u \in AllUrls |-> "none"]
    /\ fetched = [u \in AllUrls |-> NoPdf]
    /\ wchunk = [u \in AllUrls |-> 0]
    /\ widx = [u \in AllUrls |-> 0]
    /\ seenPdfFileHashes \in {{}, {Manual.hash}}
    /\ seenHashes = {}
    /\ out = <<>>
    /\ QueryIdle /\ ChunkIdle /\ FitIdle /\ OthersIdle

NextPdf ==
    \/ ProcessPdfsCall /\ UNCHANGED <<queryVars, chunkVars, fitVars, otherVars>>
    \/ SpawnWorker /\ UNCHANGED <<queryVars, chunkVars, fitVars, otherVars>>
    \/ RaceSettles /\ UNCHANGED <<queryVars, chunkVars, fitVars, otherVars>>
    \/ AwaitAll /\ UNCHANGED <<queryVars, chunkVars, fitVars, otherVars>>
    \/ AllSettles /\ UNCHANGED <<queryVars, chunkVars, fitVars, otherVars>>
    \/ \E u \in AllUrls : FetchDone(u) /\ UNCHANGED <<queryVars, chunkVars, fitVars, otherVars>>
    \/ \E u \in AllUrls : ParseDone(u) /\ UNCHANGED <<queryVars, chunkVars, fitVars, otherVars>>
    \/ \E u \in AllUrls : EmbedParentDone(u) /\ UNCHANGED <<queryVars, chunkVars, fitVars, otherVars>>
    \/ \E u \in AllUrls : EmbedChunkDone(u) /\ UNCHANGED <<queryVars, chunkVars, fitVars, otherVars>>

SpecPdf == InitPdf /\ [][NextPdf]_vars

\* ================================================== collectPdfUrls (ingest)
\* A parsed JSON object, by its own keys in order and their values.
JObject(fields) == [t |-> "object", fields |-> fields]

\* /\.pdf(\?|#|$)/i.test(str)
isPdfUrl(str) ==
    LET lower(c) == CASE c = "P" -> "p" [] c = "D" -> "d" [] c = "F" -> "f"
                      [] OTHER -> c
    IN \E i \in 1..(Len(str) - 3) :
          /\ str[i] = "."
          /\ lower(str[i + 1]) = "p"
          /\ lower(str[i + 2]) = "d"
          /\ lower(str[i + 3]) = "f"
          /\ \/ i + 3 = Len(str)
             \/ str[i + 4] \in {"?", "#"}

\* v[key] of an object: the value of its own key, undefined without it
member(v, key) ==
    LET at == {i \in 1..Len(v.fields) : v.fields[i].k = key}
    IN IF at = {} THEN JUndef ELSE v.fields[CHOOSE i \in at : TRUE].v

\* collectPdfUrls(obj, set): the set after walk(obj). walk returns on null
\* and undefined, adds a string that passes the test, walks the items of an
\* array and, of an object, the value of a Property and every key but
\* 'value'; numbers and booleans are left alone.
collectPdfUrls(obj, set) ==
    LET RECURSIVE walk(_)
        walk(v) ==
           CASE v.t \in {"null", "undef"} -> {}
             [] v.t = "str" -> IF isPdfUrl(v.s) THEN {v.s} ELSE {}
             [] v.t = "arr" ->
                   UNION {walk(v.items[i]) : i \in 1..Len(v.items)}
             [] v.t = "object" ->
                   (IF /\ member(v, "type") = JStr(<<"P", "r", "o", "p", "e", "r", "t", "y">>)
                       /\ member(v, "value").t \notin {"null", "undef"}
                    THEN walk(member(v, "value")) ELSE {})
                   \cup UNION {walk(v.fields[i].v) :
                                  i \in {j \in 1..Len(v.fields) :
                                            v.fields[j].k # "value"}}
             [] OTHER -> {}
    IN set \cup walk(obj)

\* ------------------------------------------------ inputs of collectPdfUrls
\* The source documents: leaves (strings that are PDF references, strings
\* that are not, null, a number), and up to MaxDepth levels of arrays and of
\* objects around them, the objects with or without a type and holding
\* their content under the key value or under another key.
Documents ==
    LET Leaves == {JStr(<<"m", ".", "p", "d", "f">>),
                   JStr(<<"m", ".", "P", "D", "F", "?", "v">>),
                   JStr(<<"m", ".", "p", "d", "f", "#", "p">>),
                   JStr(<<"m", ".", "p", "d", "f", "x">>),
                   JNull, JNum(1)}
        Types == {<<>>,
                  <<[k |-> "type", v |-> JStr(<<"P", "r", "o", "p", "e", "r", "t", "y">>)]>>,
                  <<[k |-> "type", v |-> JStr(<<"G", "e", "o">>)]>>}
        Around(S) ==
            S \cup {JArr(<<x>>) : x \in S}
              \cup {JArr(<<JStr(<<"n", ".", "p", "d", "f">>), x>>) : x \in S}
              \cup {JObject(ty \o <<[k |-> key, v |-> x]>>) :
                       ty \in Types, key \in {"value", "url"}, x \in S}
        RECURSIVE Level(_)
        Level(d) == IF d = 0 THEN Leaves ELSE Around(Level(d - 1))
    IN Level(MaxDepth)

\* ------------------------------------------------ collectPdfUrls, by step
\* collectPdfUrls(obj, set) with an empty set, as ingestFolder's first call
CollectCall ==
    /\ kpc = "idle"
    /\ collected' = collectPdfUrls(doc, collected)
    /\ kpc' = "returned"
    /\ UNCHANGED doc

InitCollect ==
    /\ doc \in Documents
    /\ collected = {}
    /\ kpc = "idle"
    /\ QueryIdle /\ ChunkIdle /\ FitIdle /\ PdfIdle
    /\ FolderIdle /\ MilvusIdle /\ MongoIdle

NextCollect ==
    CollectCall /\ UNCHANGED <<queryVars, chunkVars, fitVars, pdfVars,
                               folderVars, milvusVars, mongoVars>>

SpecCollect == InitCollect /\ [][NextCollect]_vars

\* =============================== getOrCreateCollectionName (MilvusRagService)
\* hasCollection(name) up to its await: the collections/has request is sent.
\* getOrCreateCollectionName reads the property 'has' of the promise that
\* hasCollection returned, which is undefined, and awaits that.
GetOrCreateCall ==
    /\ gpc = "idle"
    /\ requests' = Append(requests, [op |-> "has", name |-> wanted.name])
    /\ hasReply' = "pending"
    /\ gpc' = "has"
    /\ UNCHANGED <<wanted, existing, named>>

\* await undefined resumes before any reply can arrive; undefined is falsy,
\* so there is no return: the collections/create request is sent.
HasAwaited ==
    /\ gpc = "has"
    /\ requests' = Append(requests, [op |-> "create", name |-> wanted.name,
                                     dim |-> wanted.dim,
                                     metricType |-> wanted.metricType])
    /\ gpc' = "create"
    /\ UNCHANGED <<wanted, existing, hasReply, named>>

\* The collections/has request settles, for nobody: hasCollection returns
\* Boolean(r.data?.data), or rejects, into a promise that is not awaited.
HasSettles ==
    /\ hasReply = "pending"
    /\ gpc # "has"
    /\ hasReply' \in {IF wanted.name \in existing THEN "true" ELSE "false",
                      "rejected"}
    /\ UNCHANGED <<wanted, existing, requests, gpc, named>>

\* The collections/create request settles: the collection is made when it
\* was missing, and the collections/load request of loadCollection is sent;
\* or the post rejects and getOrCreateCollectionName throws.
CreateSettles ==
    /\ gpc = "create"
    /\ \/ /\ existing' = existing \cup {wanted.name}
          /\ requests' = Append(requests, [op |-> "load", name |-> wanted.name])
          /\ gpc' = "load"
       \/ /\ gpc' = "thrown"
          /\ UNCHANGED <<existing, requests>>
    /\ UNCHANGED <<wanted, hasReply, named>>

\* The collections/load request settles: return name, or throw.
LoadSettles ==
    /\ gpc = "load"
    /\ \/ /\ gpc' = "returned"
          /\ named' = wanted.name
       \/ /\ gpc' = "thrown"
          /\ named' = named
    /\ UNCHANGED <<wanted, existing, requests, hasReply>>

\* A call with a collection name, a dimension and a metric, against a
\* vector store that has the collection or has not.
InitMilvus ==
    /\ wanted \in [name : {"rag_docs", "rag_test"},
                   dim : {2, MaxDim},
                   metricType : {"COSINE", "L2", "IP"}]
    /\ existing \in SUBSET {"rag_docs", "rag_test"}
    /\ requests = <<>>
    /\ hasReply = "none"
    /\ gpc = "idle"
    /\ named = "none"
    /\ QueryIdle /\ ChunkIdle /\ FitIdle /\ PdfIdle
    /\ FolderIdle /\ CollectIdle /\ MongoIdle

NextMilvus ==
    \/ GetOrCreateCall /\ UNCHANGED <<queryVars, chunkVars, fitVars, pdfVars, folderVars, collectVars, mongoVars>>
    \/ HasAwaited /\ UNCHANGED <<queryVars, chunkVars, fitVars, pdfVars, folderVars, collectVars, mongoVars>>
    \/ HasSettles /\ UNCHANGED <<queryVars, chunkVars, fitVars, pdfVars, folderVars, collectVars, mongoVars>>
    \/ CreateSettles /\ UNCHANGED <<queryVars, chunkVars, fitVars, pdfVars, folderVars, collectVars, mongoVars>>
    \/ LoadSettles /\ UNCHANGED <<queryVars, chunkVars, fitVars, pdfVars, folderVars, collectVars, mongoVars>>

SpecMilvus == InitMilvus /\ [][NextMilvus]_vars

\* ====================================== getClient (VectorMappingService)
Callers == 1..MaxCallers

\* listMappings calls getClient. With this.client set, getClient returns
\* it and listMappings goes on to its find; otherwise getClient makes a
\* MongoClient, stores it in this.client and awaits its connect().
ListMappingsCall(c) ==
    /\ lpc[c] = "idle"
    /\ IF client # 0
       THEN /\ held' = [held EXCEPT ![c] = client]
            /\ lpc' = [lpc EXCEPT ![c] = "find"]
            /\ UNCHANGED <<client, clients>>
       ELSE /\ clients' = Append(clients, "connecting")
            /\ client' = Len(clients')
            /\ lpc' = [lpc EXCEPT ![c] = "connect"]
            /\ held' = held

\* connect() settles: on success getClient goes on to the ping; on failure
\* getClient rejects and listMappings throws InternalServerErrorException.
\* this.client keeps the MongoClient either way.
ConnectSettles(c) ==
    /\ lpc[c] = "connect"
    /\ \E how \in {"connected", "failed"} :
          /\ clients' = [clients EXCEPT ![client] = how]
          /\ lpc' = [lpc EXCEPT ![c] =
                        IF how = "connected" THEN "ping" ELSE "thrown"]
    /\ UNCHANGED <<client, held>>

\* The ping settles, its failure ignored: return this.client.
PingSettles(c) ==
    /\ lpc[c] = "ping"
    /\ held' = [held EXCEPT ![c] = client]
    /\ lpc' = [lpc EXCEPT ![c] = "find"]
    /\ UNCHANGED <<client, clients>>

\* The find of listMappings settles: the mappings, or
\* InternalServerErrorException.
FindSettles(c) ==
    /\ lpc[c] = "find"
    /\ \E how \in {"returned", "thrown"} : lpc' = [lpc EXCEPT ![c] = how]
    /\ UNCHANGED <<client, clients, held>>

\* The service after construction, with its requests yet to come.
InitMongo ==
    /\ client = 0
    /\ clients = <<>>
    /\ lpc = [c \in Callers |-> "idle"]
    /\ held = [c \in Callers |-> 0]
    /\ QueryIdle /\ ChunkIdle /\ FitIdle /\ PdfIdle
    /\ FolderIdle /\ CollectIdle /\ MilvusIdle

NextMongo ==
    \/ \E c \in Callers : ListMappingsCall(c) /\ UNCHANGED <<queryVars, chunkVars, fitVars, pdfVars, folderVars, collectVars, milvusVars>>
    \/ \E c \in Callers : ConnectSettles(c) /\ UNCHANGED <<queryVars, chunkVars, fitVars, pdfVars, folderVars, collectVars, milvusVars>>
    \/ \E c \in Callers : PingSettles(c) /\ UNCHANGED <<queryVars, chunkVars, fitVars, pdfVars, folderVars, collectVars, milvusVars>>
    \/ \E c \in Callers : FindSettles(c) /\ UNCHANGED <<queryVars, chunkVars, fitVars, pdfVars, folderVars, collectVars, milvusVars>>

SpecMongo == InitMongo /\ [][NextMongo]_vars

\* ===================================================== ingestFolder (ingest)
\* The JSON-LD files of the folder, in the order in which listJsonFiles
\* walks their directories, each by its path relative to the folder
\* (the directory and the base name), by its entities (one when the JSON is
\* an object, several when it is an array), each entity by the chunks that
\* chunkByTokens makes of its fact paragraphs (none for an entity without
\* fact paragraphs), and by the PDF URLs collectPdfUrls finds in it.
\* Two of the files have the same base name in different directories.
JsonFiles ==
   <<[dir |-> "a", base |-> "asset.json", entities |-> << <<"x", "y">> >>,
      pdfs |-> <<1>>],
     [dir |-> "b", base |-> "asset.json", entities |-> << <<"x", "z">> >>,
      pdfs |-> <<2>>],
     [dir |-> "c", base |-> "list.json", entities |-> << <<"y", "y">>, <<>> >>,
      pdfs |-> <<1, 2>>]>>

\* The doc that embedChunk promises for the parent of an entity, and for
\* its chunk ch at position i, with
\* baseName = `${path.basename(file)}${entities.length > 1 ? `@${eidx}` : ''}`,
\* parentId = this.sha256(`${baseName}:parent`) and hash = this.sha256(ch).
jsonRecord(file, eidx, kind, ch, i) ==
    LET baseName == IF Len(file.entities) > 1
                    THEN <<file.base, "@", eidx>> ELSE <<file.base>>
        parentId == <<baseName, "parent">>
    IN [kind |-> kind, parent_id |-> parentId,
        sha256 |-> IF kind = "parent" THEN <<>> ELSE <<ch>>,
        source |-> <<file.dir, file.base>>, chunk |-> i, text |-> ch]

\* The loops over the entities of a file and over the chunks of each, from
\* entity eidx and chunk i on: what they push to parentDocs and childDocs
\* and add to seenHashes, given those as acc.
RECURSIVE ingestEntities(_, _, _, _)
ingestEntities(file, eidx, i, acc) ==
    IF eidx >= Len(file.entities) THEN acc
    ELSE LET chs == file.entities[eidx + 1]
         IN IF chs = <<>> THEN ingestEntities(file, eidx + 1, 0, acc)
            ELSE IF i = 0
            THEN ingestEntities(file, eidx, 1,
                    [acc EXCEPT !.parents =
                        Append(@, jsonRecord(file, eidx, "parent", "parent", -1))])
            ELSE IF i > Len(chs) THEN ingestEntities(file, eidx + 1, 0, acc)
            ELSE IF <<chs[i]>> \in acc.seen
            THEN ingestEntities(file, eidx, i + 1, acc)
            ELSE ingestEntities(file, eidx, i + 1,
                    [acc EXCEPT !.seen = @ \cup {<<chs[i]>>},
                                !.children =
                        Append(@, jsonRecord(file, eidx, "jsonld", chs[i], i - 1))])

\* ------------------------------------------------------ ingestFolder, by step
\* A call of ingestFolder, the first or a later one on the same service, up
\* to its await of listJsonFiles.  seenHashes and seenPdfFileHashes are
\* fields of the service: the call leaves them as they are.  The locals of
\* the earlier call, those of its processPdfs included, are gone.
IngestFolderCall ==
    /\ ipc \in {"idle", "done", "embedFailed", "uploadFailed"}
    /\ run < MaxRuns
    /\ run' = run + 1
    /\ ipc' = "list"
    /\ fileIdx' = 0
    /\ skipped' = {}
    /\ parentDocs' = <<>>
    /\ childDocs' = <<>>
    /\ pdfUrls' = <<>>
    /\ uploaded' = <<>>
    /\ urls' = <<>>
    /\ nextUrl' = 1
    /\ ppc' = "idle"
    /\ pool' = <<>>
    /\ awaited' = {}
    /\ wpc' = [u \in AllUrls |-> "none"]
    /\ fetched' = [u \in AllUrls |-> NoPdf]
    /\ wchunk' = [u \in AllUrls |-> 0]
    /\ widx' = [u \in AllUrls |-> 0]
    /\ out' = <<>>
    /\ UNCHANGED <<targets, pdfConcurrency, seenPdfFileHashes, seenHashes>>

\* listJsonFiles settles: the for loop starts, with the readFile of the
\* first file, or is over at once.
ListDone ==
    /\ ipc = "list"
    /\ fileIdx' = 1
    /\ ipc' = IF targets = <<>> THEN "parents" ELSE "read"
    /\ UNCHANGED <<targets, skipped, parentDocs, childDocs, pdfUrls, uploaded,
                   run, pdfVars>>

SkipFile_DropDocs ==
    /\ skipped' = skipped \cup {fileIdx}
    /\ parentDocs' = <<>>
    /\ childDocs' = <<>>
    /\ UNCHANGED <<pdfUrls, seenHashes>>

\* catch (e) { this.log.warn(`Skip (parse error) ...`); continue; }
SkipFile ==
    /\ skipped' = skipped \cup {fileIdx}
    /\ UNCHANGED <<parentDocs, childDocs, pdfUrls, seenHashes>>

\* readFile settles for the file at fileIdx.  It rejects, or JSON.parse
\* throws: the file is skipped.  Otherwise pdfUrls takes the file's URLs and
\* the loops over its entities and their chunks run.  Then the next file's
\* readFile, or await Promise.all(parentDocs).
ReadDone ==
    /\ ipc = "read"
    /\ \/ SkipFile
       \/ LET file == targets[fileIdx]
              fresh == SelectSeq(file.pdfs,
                          LAMBDA u : \A j \in 1..Len(pdfUrls) : pdfUrls[j] # u)
              acc == ingestEntities(file, 0, 0,
                        [seen |-> seenHashes, parents |-> parentDocs,
                         children |-> childDocs])
          IN /\ pdfUrls' = pdfUrls \o fresh
             /\ parentDocs' = acc.parents
             /\ childDocs' = acc.children
             /\ seenHashes' = acc.seen
             /\ skipped' = skipped
    /\ fileIdx' = fileIdx + 1
    /\ ipc' = IF fileIdx' > Len(targets) THEN "parents" ELSE "read"
    /\ UNCHANGED <<targets, uploaded, run, urls, pdfConcurrency, nextUrl, ppc,
                   pool, awaited, wpc, fetched, wchunk, widx,
                   seenPdfFileHashes, out>>

\* await Promise.all(parentDocs) settles: every embedChunk call of a parent
\* has resolved, or one has rejected and ingestFolder throws.
ParentsSettle ==
    /\ ipc = "parents"
    /\ \/ ipc' = "children"
       \/ /\ parentDocs # <<>>
          /\ ipc' = "embedFailed"
    /\ UNCHANGED <<targets, fileIdx, skipped, parentDocs, childDocs, pdfUrls,
                   uploaded, run, pdfVars>>

\* await Promise.all(childDocs) settles likewise; when it resolves,
\* processPdfs(Array.from(pdfUrls)) is called.
ChildrenSettle ==
    /\ ipc = "children"
    /\ \/ /\ ipc' = "pdfs"
          /\ urls' = pdfUrls
       \/ /\ childDocs # <<>>
          /\ ipc' = "embedFailed"
          /\ urls' = urls
    /\ UNCHANGED <<targets, fileIdx, skipped, parentDocs, childDocs, pdfUrls,
                   uploaded, run, pdfConcurrency, nextUrl, ppc, pool, awaited,
                   wpc, fetched, wchunk, widx, seenPdfFileHashes, seenHashes,
                   out>>

\* processPdfs has returned: allDocs is the parents, the children and the
\* PDF docs, every vector of which createEmbeddings has fitted to
\* RAG_EMBED_DIM, so that the filter keeps them all; with any doc,
\* await this.milvus.addDocuments(...), which resolves or rejects.
UploadStep ==
    /\ ipc = "pdfs"
    /\ ppc = "returned"
    /\ LET allDocs == parentDocs \o childDocs \o out
       IN /\ uploaded' = allDocs
          /\ \/ ipc' = "done"
             \/ /\ allDocs # <<>>
                /\ ipc' = "uploadFailed"
    /\ UNCHANGED <<targets, fileIdx, skipped, parentDocs, childDocs, pdfUrls,
                   run, pdfVars>>

\* A fresh service, with up to MaxFiles files in its folder, which
\* listJsonFiles finds in the order of their directories.
InitIngest ==
    /\ targets \in {SelectSeq(JsonFiles, LAMBDA f : f.dir \in dirs) :
                       dirs \in {d \in SUBSET {"a", "b", "c"} :
                                    Cardinality(d) <= MaxFiles}}
    /\ ipc = "idle"
    /\ fileIdx = 0
    /\ skipped = {}
    /\ parentDocs = <<>>
    /\ childDocs = <<>>
    /\ pdfUrls = <<>>
    /\ uploaded = <<>>
    /\ run = 0
    /\ urls = <<>>
    /\ pdfConcurrency \in 1..2
    /\ nextUrl = 1
    /\ ppc = "idle"
    /\ pool = <<>>
    /\ awaited = {}
    /\ wpc = [u \in AllUrls |-> "none"]
    /\ fetched = [u \in AllUrls |-> NoPdf]
    /\ wchunk = [u \in AllUrls |-> 0]
    /\ widx = [u \in AllUrls |-> 0]
    /\ seenPdfFileHashes = {}
    /\ seenHashes = {}
    /\ out = <<>>
    /\ QueryIdle /\ ChunkIdle /\ FitIdle
    /\ CollectIdle /\ MilvusIdle /\ MongoIdle

NextIngest ==
    \/ IngestFolderCall /\ UNCHANGED <<queryVars, chunkVars, fitVars, collectVars, milvusVars, mongoVars>>
    \/ ListDone /\ UNCHANGED <<queryVars, chunkVars, fitVars, collectVars, milvusVars, mongoVars>>
    \/ ReadDone /\ UNCHANGED <<queryVars, chunkVars, fitVars, collectVars, milvusVars, mongoVars>>
    \/ ParentsSettle /\ UNCHANGED <<queryVars, chunkVars, fitVars, collectVars, milvusVars, mongoVars>>
    \/ ChildrenSettle /\ UNCHANGED <<queryVars, chunkVars, fitVars, collectVars, milvusVars, mongoVars>>
    \/ ipc = "pdfs" /\ ProcessPdfsCall /\ UNCHANGED <<queryVars, chunkVars, fitVars, otherVars>>
    \/ ipc = "pdfs" /\ SpawnWorker /\ UNCHANGED <<queryVars, chunkVars, fitVars, otherVars>>
    \/ ipc = "pdfs" /\ RaceSettles /\ UNCHANGED <<queryVars, chunkVars, fitVars, otherVars>>
    \/ ipc = "pdfs" /\ AwaitAll /\ UNCHANGED <<queryVars, chunkVars, fitVars, otherVars>>
    \/ ipc = "pdfs" /\ AllSettles /\ UNCHANGED <<queryVars, chunkVars, fitVars, otherVars>>
    \/ \E u \in AllUrls : ipc = "pdfs" /\ FetchDone(u) /\ UNCHANGED <<queryVars, chunkVars, fitVars, otherVars>>
    \/ \E u \in AllUrls : ipc = "pdfs" /\ ParseDone(u) /\ UNCHANGED <<queryVars, chunkVars, fitVars, otherVars>>
    \/ \E u \in AllUrls : ipc = "pdfs" /\ EmbedParentDone(u) /\ UNCHANGED <<queryVars, chunkVars, fitVars, otherVars>>
    \/ \E u \in AllUrls : ipc = "pdfs" /\ EmbedChunkDone(u) /\ UNCHANGED <<queryVars, chunkVars, fitVars, otherVars>>
    \/ UploadStep /\ UNCHANGED <<queryVars, chunkVars, fitVars, collectVars, milvusVars, mongoVars>>

SpecIngest == InitIngest /\ [][NextIngest]_vars

\* ================================================================== claims
SummaryReply == "Here's the live chart summary"
NoDataReply == "No live data available"

CallCount(name) == Cardinality({i \in 1..Len(calls) : calls[i] = name})

\* The time-series resolver has returned a series.
SeriesReturned ==
    /\ ~seriesResult.raised
    /\ seriesResult.value.t = "obj"

SeriesLength == Len(seriesResult.value.series.items)

\* C1: when the chart classifier reports a chart intent with an asset and a
\* from/to window and the time-series resolver returns a non-empty series,
\* the request returns the structured chart result, and after the intent
\* classification no completion call and no semantic retrieval is made.
C1_ChartShortCircuit ==
    (SeriesReturned /\ SeriesLength > 0) =>
        /\ pc = "done"
        /\ result.status = "returned"
        /\ result.value.reply = SummaryReply
        /\ result.value.data = seriesResult.value
        /\ result.value.summary.points = Len(seriesResult.value.series.items)
        /\ calls = <<"chatCompletion:chart", "pgPool.query">>

C1_Witness ==
    /\ SeriesReturned
    /\ SeriesLength > 1
    /\ pc = "done"
    /\ result.status = "returned"

\* C2: when the chart intent is positive with a resolved window and the
\* time-series resolver returns an empty series, the request returns the
\* "No live data available" result, without an answer-synthesis call.
C2_EmptySeriesNoData ==
    (SeriesReturned /\ SeriesLength = 0) =>
        /\ result.status = "returned"
        /\ result.value.reply = NoDataReply
        /\ CallCount("chatCompletion:answer") = 0

\* The order of the steps: chart 1, alert 2, retrieval 3, synthesis 4.
StepOf(call) ==
    CASE call \in {"chatCompletion:chart", "pgPool.query"} -> 1
      [] call \in {"chatCompletion:alert", "axios.get"} -> 2
      [] call \in {"createEmbeddings", "milvus.search"} -> 3
      [] OTHER -> 4

\* C3: the steps run in the order chart, alert, retrieval, synthesis and
\* the first step with a result wins: every external call is made while no
\* result has been produced, never before a call of an earlier step, the
\* alert step's only after the chart step returned null, and retrieval and
\* synthesis only after both live-data steps returned null.
C3_StrictOrder ==
    [][calls' # calls =>
         LET c == calls'[Len(calls')]
         IN /\ calls' = Append(calls, c)
            /\ result = Pending
            /\ \A i \in 1..Len(calls) : StepOf(calls[i]) <= StepOf(c) /\ calls[i] # c
            /\ StepOf(c) = 1 => a = JUndef /\ b = JUndef
            /\ StepOf(c) = 2 => a = JNull /\ b = JUndef
            /\ StepOf(c) >= 3 => a = JNull /\ b = JNull]_vars

C3_Witness ==
    /\ calls = <<"chatCompletion:chart", "chatCompletion:alert", "createEmbeddings",
                 "milvus.search", "chatCompletion:answer">>
    /\ result.status = "returned"

\* The context text holds the marker [Sn] exactly at the positions MarkerAt(n).
MarkerAt(n) ==
    {i \in 1..Len(contextText) :
        /\ i + 3 <= Len(contextText)
        /\ SubSeq(contextText, i, i + 3) = <<Ch("["), Ch("S"), Ch(Digit[n + 1]), Ch("]")>>}

\* One marker [S1], [S2], ... for every retrieved hit, in result order.
MarkersPerHit ==
    /\ \A n \in 1..Len(sources) : Cardinality(MarkerAt(n)) = 1
    /\ \A n \in (Len(sources) + 1)..9 : MarkerAt(n) = {}
    /\ \A m, n \in 1..Len(sources) :
         m < n => \A i \in MarkerAt(m), j \in MarkerAt(n) : i < j

\* C4: a request for which neither live-data step produced a result invokes
\* the semantic retriever exactly once and the answer-synthesis call exactly
\* once, with one source marker per retrieved hit in result order.
C4_RetrievalAndAnswerOnce ==
    (pc = "done" /\ a = JNull /\ b = JNull) =>
        /\ CallCount("createEmbeddings") = 1
        /\ CallCount("chatCompletion:answer") = 1
        /\ MarkersPerHit

\* The text of turn i without its white space.
BareText(i) == SelectSeq(messages[i].content, LAMBDA tok : tok # Ws)

\* C5 as claimed: the answer-synthesis request carries the system turn
\* followed by exactly the min(N, 10) most recent turns, in order, whatever
\* their role or content.
C5_LastTenTurns ==
    CallCount("chatCompletion:answer") = 1 =>
        LET N == Len(messages)
            K == IF N < 10 THEN N ELSE 10
        IN /\ Len(sent) = 1 + K
           /\ sent[1].role = "system"
           /\ \A k \in 1..K :
                sent[1 + k] = [role |-> messages[N - K + k].role,
                               text |-> BareText(N - K + k)]

\* The turns among the 10 most recent whose content is not blank.
NonBlankRecent ==
    {i \in 1..Len(messages) : i > Len(messages) - 10 /\ BareText(i) # <<>>}

\* C5 as amended: the answer-synthesis request carries the system turn
\* followed by exactly those of the min(N, 10) most recent turns whose
\* content is not blank, in their original order, whatever their role.
C5_LastTenNonBlankTurns ==
    CallCount("chatCompletion:answer") = 1 =>
        /\ Len(sent) = 1 + Cardinality(NonBlankRecent)
        /\ sent[1].role = "system"
        /\ \A i \in NonBlankRecent :
             sent[1 + Cardinality({j \in NonBlankRecent : j <= i})] =
                 [role |-> messages[i].role, text |-> BareText(i)]

C5_Witness ==
    /\ CallCount("chatCompletion:answer") = 1
    /\ Len(messages) > 10
    /\ Cardinality(NonBlankRecent) = 9
    /\ \E i \in 1..Len(messages) : i <= Len(messages) - 10 /\ BareText(i) # <<>>
    /\ Len(sent) = 10

\* C6: a classification call that raises is treated as a negative
\* classification: the chart step returns null and the alert step follows,
\* the alert step returns null and retrieval follows; the request is not
\* aborted.
C6_ClassifierErrorIsNegative ==
    /\ chartR = Rejected =>
         /\ pc = "alert"
         /\ a = JNull
         /\ result = Pending
         /\ calls = <<"chatCompletion:chart">>
    /\ alertR = Rejected =>
         /\ pc = "embed"
         /\ b = JNull
         /\ result = Pending
         /\ calls = <<"chatCompletion:chart", "chatCompletion:alert">>

C6_Witness ==
    /\ chartR = Rejected
    /\ chartNlu = Raised
    /\ pc = "alert"

\* Outputs that hold no parseable value once the fences at the two ends
\* are stripped.
UnparseableOutputs(o) ==
    {JStr(<<Txt>>), JStr(<<>>), JStr(<<Fence, Fence>>), JStr(<<Brace>>), JUndef,
     JStr(<<Txt, Ws, Fence, JsonWord, Ws, Val(o), Ws, Fence>>),
     JStr(<<Val(o), Ws, Txt>>),
     [t |-> "arr", parts |-> <<<<Txt>>, <<Val(o)>>>>]}

Unparseable(r) ==
    /\ r.ok
    /\ \/ ~JsonParses(StripCodeFences(asString(r.content)))
       \/ \E o \in ChartIntentObjs \cup AlertIntentObjs : r.content \in UnparseableOutputs(o)

\* C7: on an output that is not parseable after stripping the code fences
\* the classifiers do not raise and return the negative intent.
C7_UnparseableIsNegative ==
    /\ Unparseable(chartR) => chartNlu = Returned(NoChartIntent)
    /\ Unparseable(alertR) => alertNlu = Returned(NoAlertIntent)

C7_Witness ==
    /\ \E o \in ChartIntentObjs :
         /\ Truthy(o.wants_chart)
         /\ chartR = Resolved(JStr(<<Txt, Ws, Fence, JsonWord, Ws, Val(o), Ws, Fence>>))
    /\ chartNlu = Returned(NoChartIntent)
    /\ pc = "alert"

NonEmptyString(v) == v.t = "str" /\ Len(v.s) > 0

ChartWanted ==
    /\ ~chartNlu.raised
    /\ chartNlu.value.t = "obj"
    /\ chartNlu.value.wants_chart = JBool(TRUE)

\* C8: the time-series resolver is called only for an intent with an asset
\* reference and both from and to, with that window; a chart intent that
\* lacks from or to is routed like no chart intent, to the alert step.
C8_FetchNeedsFullWindow ==
    /\ (pc = "series" \/ CallCount("pgPool.query") > 0) =>
         /\ ChartWanted
         /\ NonEmptyString(chartNlu.value.asset_urn)
         /\ NonEmptyString(chartNlu.value.from)
         /\ NonEmptyString(chartNlu.value.to)
         /\ fetchArgs.assetUrn = chartNlu.value.asset_urn
         /\ fetchArgs.from = chartNlu.value.from
         /\ fetchArgs.to = chartNlu.value.to
    /\ (ChartWanted /\ ~(NonEmptyString(chartNlu.value.from)
                         /\ NonEmptyString(chartNlu.value.to))) =>
         /\ pc = "alert"
         /\ a = JNull
         /\ result = Pending
         /\ calls = <<"chatCompletion:chart">>

C8_Witness ==
    /\ ChartWanted
    /\ hasPgPool
    /\ chartNlu.value.asset_urn = Urn
    /\ chartNlu.value.from = FromIso
    /\ chartNlu.value.to = JNull
    /\ pc = "alert"

\* C9: a chart intent whose window is given only as last = {value, unit} is
\* resolved to a from/to pair and the time-series resolver is called with it.
C9_RelativeWindowResolved ==
    (/\ ChartWanted
     /\ hasPgPool
     /\ chartNlu.value.asset_urn = Urn
     /\ chartNlu.value.last = Last24h
     /\ chartNlu.value.from = JNull
     /\ chartNlu.value.to = JNull) =>
        /\ pc \in {"series", "done"}
        /\ NonEmptyString(fetchArgs.from)
        /\ NonEmptyString(fetchArgs.to)

\* C10: when the store query of a live-data resolver fails, the resolver
\* returns a result with an empty sequence and the request's asset metadata,
\* and no error reaches handleQuery.
C10_StoreFailureIsEmptyResult ==
    /\ seriesQuery = QueryFailed =>
         /\ seriesResult =
              Returned([t |-> "obj", series |-> JArr(<<>>),
                        meta |-> [assetUrn |-> chartNlu.value.asset_urn,
                                  metric |-> Coalesce(chartNlu.value.metric, JUndef),
                                  source |-> "postgres"]])
         /\ chart = seriesResult.value
         /\ result.status = "returned"
    /\ alertQuery = QueryFailed =>
         /\ alertResult =
              Returned([t |-> "obj", alerts |-> JArr(<<>>),
                        meta |-> [assetUrn |-> alertNlu.value.asset_urn,
                                  source |-> "alerta"]])
         /\ alert = alertResult.value
         /\ result.status = "returned"

C10_Witness ==
    /\ seriesQuery = QueryFailed
    /\ seriesResult.value.meta.assetUrn = Urn
    /\ pc = "done"

\* ---------------------------------------------------------------- C11
AnswerText == JStr(<<Ch("answer")>>)

\* C11: on the retrieval path a failed answer-synthesis call makes
\* handleQuery signal InternalServerErrorException and return no reply, and
\* a call that succeeds with a reply text makes handleQuery return that text.
C11_AnswerFailureIsHardError ==
    (pc = "done" /\ CallCount("chatCompletion:answer") = 1) =>
        /\ answerR = Rejected =>
             /\ result.status = "thrown"
             /\ result.error = "InternalServerErrorException"
             /\ result.value = JNull
        /\ answerR = Resolved(AnswerText) =>
             result = Replied([t |-> "obj", reply |-> AnswerText])

C11_Witness ==
    /\ pc = "done"
    /\ CallCount("milvus.search") = 1
    /\ answerR = Rejected
    /\ result = Thrown("InternalServerErrorException")

\* ---------------------------------------------------------------- C12
\* C12: for a non-empty message list the only external failure that makes
\* handleQuery fail is that of the answer-synthesis call: a failed
\* embedding or vector search leaves the context empty and the request
\* goes on to the answer-synthesis call.
C12_OnlyAnswerFailureAborts ==
    /\ (Len(messages) > 0 /\ result.status = "thrown") =>
           CallCount("chatCompletion:answer") = 1
    /\ (pc = "done" /\ embedding.outcome \in {"rejected", "empty"}) =>
           /\ contextText = <<>>
           /\ CallCount("chatCompletion:answer") = 1

\* ---------------------------------------------------------------- C13
\* The alert classifier reported an alert intent with an asset.
AlertWanted ==
    /\ ~alertNlu.raised
    /\ alertNlu.value.t = "obj"
    /\ Truthy(Get(alertNlu.value, "wants_alert"))
    /\ Get(alertNlu.value, "asset_urn").t = "str"
    /\ Get(alertNlu.value, "asset_urn").s # <<>>

AlertsLength == Len(alertResult.value.alerts.items)

\* C13: when the chart step produced no result and the alert classifier
\* reports an alert intent with an asset, the alert resolver is called and
\* handleQuery returns directly after it with the resolver's alert list,
\* empty or not, with no retrieval and no answer-synthesis call.
C13_AlertShortCircuit ==
    AlertWanted =>
        /\ a = JNull
        /\ pc \in {"alerts", "done"}
        /\ pc = "done" =>
             /\ calls = <<"chatCompletion:chart", "chatCompletion:alert", "axios.get">>
             /\ result.status = "returned"
             /\ result.value = b
             /\ result.value.alerts = alertResult.value.alerts
             /\ AlertsLength \in 0..MaxRows

C13_Witness ==
    /\ AlertWanted
    /\ pc = "done"
    /\ AlertsLength = 0
    /\ result.status = "returned"

\* ---------------------------------------------------------------- C14
LiveStoreCalls == {"pgPool.query", "axios.get"}

\* C14: one execution of handleQuery queries at most one live-data store,
\* at most once: never both the time-series store and the alert service,
\* and never the vector store after a live-data store.
C14_OneLiveStoreAtMost ==
    /\ CallCount("pgPool.query") + CallCount("axios.get") <= 1
    /\ (\E i \in 1..Len(calls) : calls[i] \in LiveStoreCalls) =>
           /\ CallCount("createEmbeddings") = 0
           /\ CallCount("milvus.search") = 0
           /\ pc = "done" => calls[Len(calls)] \in LiveStoreCalls

C14_Witness ==
    /\ pc = "done"
    /\ CallCount("pgPool.query") = 1
    /\ SeriesReturned
    /\ SeriesLength = 0
    /\ CallCount("axios.get") = 0

\* ---------------------------------------------------------------- C15
\* chunkByTokens returned exactly one chunk, holding every word of the text.
OneChunkOfAllWords == chunks = <<joinWords(words)>>

\* C15 as stated: chunkByTokens returns no chunk for a text without words,
\* and exactly one chunk holding all the words for a text of fewer than
\* minTokens words.
C15_ShortInputOneChunk ==
    cpc = "returned" =>
        /\ words = <<>> => chunks = <<>>
        /\ (words # <<>> /\ Len(words) < minTokens) => OneChunkOfAllWords

\* C15 amended: chunkByTokens returns no chunk for a text without words,
\* and exactly one chunk holding all the words, from its first pass, for a
\* text of fewer than minTokens words that has no more than maxTokens words.
C15_ShortInputWithinMaxOneChunk ==
    /\ (cpc = "returned" /\ words = <<>>) => chunks = <<>>
    /\ (words # <<>> /\ Len(words) < minTokens /\ Len(words) <= maxTokens) =>
           /\ cpc = "loop" => (start = 0 /\ chunks = <<>>)
           /\ cpc = "returned" => (OneChunkOfAllWords /\ end = Len(words))

C15_Witness ==
    /\ cpc = "returned"
    /\ Len(words) = 2
    /\ minTokens = 3
    /\ maxTokens = 2
    /\ Len(chunks) = 1

\* ---------------------------------------------------------------- C16
LastWords(ws, n) == SubSeq(ws, Len(ws) - n + 1, Len(ws))
FirstWords(ws, n) == SubSeq(ws, 1, n)

\* C16: any two consecutive chunks chunkByTokens returns share exactly
\* overlap words: the last overlap words of one are the first overlap words
\* of the next, and no more than those.
C16_ConsecutiveChunksShareOverlap ==
    cpc = "returned" =>
        \A i \in 1..(Len(chunks) - 1) :
            LET x == splitWords(chunks[i])
                y == splitWords(chunks[i + 1])
            IN /\ Len(x) >= overlap
               /\ Len(y) > overlap
               /\ LastWords(x, overlap) = FirstWords(y, overlap)
               /\ Len(x) > overlap =>
                     LastWords(x, overlap + 1) # FirstWords(y, overlap + 1)

C16_Witness ==
    /\ cpc = "returned"
    /\ Len(chunks) = 3
    /\ overlap = 2

\* ---------------------------------------------------------------- C17
\* The chunks' words with the first n words of every chunk but the first
\* removed.
RECURSIVE Reassemble(_, _)
Reassemble(cs, n) ==
    IF cs = <<>> THEN <<>>
    ELSE IF Len(cs) = 1 THEN splitWords(cs[1])
    ELSE LET rest == Reassemble(SubSeq(cs, 1, Len(cs) - 1), n)
             last == splitWords(cs[Len(cs)])
         IN rest \o SubSeq(last, n + 1, Len(last))

RECURSIVE WordCount(_)
WordCount(cs) ==
    IF cs = <<>> THEN 0 ELSE Len(splitWords(Head(cs))) + WordCount(Tail(cs))

WordSet(c) == {splitWords(c)[k] : k \in 1..Len(splitWords(c))}

\* C17: the chunks chunkByTokens returns, with the overlaps removed, put
\* together give the word sequence of the text; with overlap 0 the chunks
\* have no word in common and their word counts add up to the text's.
C17_ChunksReassembleInput ==
    cpc = "returned" =>
        /\ Reassemble(chunks, overlap) = words
        /\ overlap = 0 =>
             /\ WordCount(chunks) = Len(words)
             /\ \A i, j \in 1..Len(chunks) :
                    i # j => WordSet(chunks[i]) \cap WordSet(chunks[j]) = {}

C17_Witness ==
    /\ cpc = "returned"
    /\ Len(chunks) = 4
    /\ overlap = 1
    /\ Len(words) = 5

\* ---------------------------------------------------------------- C18
\* C18: for every text and every (minTokens, maxTokens, overlap),
\* chunkByTokens returns, its last window ending at the end of the words.
C18_ChunkingTerminates ==
    <>(cpc = "returned" /\ (words # <<>> => end = Len(words)))

\* ---------------------------------------------------------------- C19
\* C19: fit returns a vector of exactly targetDim components: the served
\* vector itself when it has that length, its first targetDim components
\* when it is longer, and the vector followed by zeros when it is shorter.
C19_FitToDimension ==
    fpc = "returned" =>
        /\ Len(fitted) = targetDim
        /\ Len(served) = targetDim => fitted = served
        /\ Len(served) > targetDim =>
             \A i \in 1..targetDim : fitted[i] = served[i]
        /\ Len(served) < targetDim =>
             /\ \A i \in 1..Len(served) : fitted[i] = served[i]
             /\ \A i \in (Len(served) + 1)..targetDim : fitted[i] = 0

C19_Witness ==
    /\ fpc = "returned"
    /\ Len(served) = 3
    /\ targetDim = 2
    /\ fitted = <<served[1], served[2]>>
    /\ served[3] # 0

\* ---------------------------------------------------------------- C20
\* The URLs that served the bytes of hash h.
UrlsServing(h) == {u \in AllUrls : fetched[u].hash = h}

\* The records of out that come from URL u, in order.
OutOf(u) == SelectSeq(out, LAMBDA r : r.sourceUrl = u)

RECURSIVE WithoutRepeats(_, _)
WithoutRepeats(cs, had) ==
    IF cs = <<>> THEN <<>>
    ELSE IF Head(cs) \in had THEN WithoutRepeats(Tail(cs), had)
    ELSE <<Head(cs)>> \o WithoutRepeats(Tail(cs), had \cup {Head(cs)})

\* One parent and the chunks of the bytes URL u served.
RecordSetOf(u) ==
    LET pdf == fetched[u]
        cs == WithoutRepeats(pdf.chunks, {})
    IN <<parentRecord(u, pdf)>>
       \o [i \in 1..Len(cs) |-> chunkRecord(u, pdf, cs[i], i - 1)]

IsPrefix(x, y) == Len(x) <= Len(y) /\ x = SubSeq(y, 1, Len(x))

\* C20 as stated: when processPdfs has returned, of the URLs that served
\* the same bytes exactly one has produced records, one parent plus its
\* chunks, and every other one was skipped and produced none.
C20_ExactlyOneProducesRecords ==
    ppc = "returned" =>
        \A pdf \in Pdfs :
            UrlsServing(pdf.hash) # {} =>
                \E u \in UrlsServing(pdf.hash) :
                    /\ OutOf(u) = RecordSetOf(u)
                    /\ \A w \in UrlsServing(pdf.hash) \ {u} :
                           wpc[w] = "skipped" /\ OutOf(w) = <<>>

\* C20 amended: under every interleaving, of the URLs that served the same
\* bytes at most one is processed and every other one is skipped and
\* produces no record; the processed one produces one parent plus its
\* chunks when it completes, and a leading part of them when it fails.
C20_AtMostOneProcessed ==
    \A pdf \in Pdfs :
        LET same == UrlsServing(pdf.hash)
            processed == {u \in same : wpc[u] # "skipped"}
        IN /\ Cardinality(processed) <= 1
           /\ same # {} => pdf.hash \in seenPdfFileHashes
           /\ \A w \in same \ processed : OutOf(w) = <<>>
           /\ \A u \in processed :
                 /\ IsPrefix(OutOf(u), RecordSetOf(u))
                 /\ wpc[u] = "complete" => OutOf(u) = RecordSetOf(u)
                 /\ wpc[u] \in {"fetch", "parse", "embedParent", "noText"} =>
                        OutOf(u) = <<>>

C20_Witness ==
    /\ ppc = "returned"
    /\ pdfConcurrency = 3
    /\ UrlsServing(Manual.hash) = 1..3
    /\ wpc[2] = "complete"
    /\ Len(OutOf(2)) = 3
    /\ wpc[1] = "skipped"
    /\ wpc[3] = "skipped"

\* ---------------------------------------------------------------- C26
\* The paragraph breaks of the input, each by the number of words before it.
ParagraphBreaks ==
    {Len(splitWords(SubSeq(text, 1, i - 1))) :
        i \in {k \in 1..(Len(text) - 1) :
                  text[k] = Newline /\ text[k + 1] = Newline}}

\* The paragraph breaks inside the window of up to maxTokens words that
\* starts at start, with at least minTokens words of the window before them.
BreaksInWindow ==
    {k \in ParagraphBreaks :
        /\ start < k
        /\ k < SeqMin(Len(words), start + maxTokens)
        /\ k - start >= minTokens}

\* C26: in chunkByTokens, whenever a paragraph break lies inside the
\* candidate window of up to maxTokens words and at least minTokens words
\* of the window precede it, the pass of the loop cuts the chunk at such a
\* paragraph break and not at the full window.
C26_CutAtParagraphBreak ==
    [][(cpc = "loop" /\ start < Len(words) /\ BreaksInWindow # {})
          => end' \in BreaksInWindow]_vars

\* ---------------------------------------------------------------- C27
\* The PDF workers that have started and not finished.
RunningWorkers == {u \in DOMAIN wpc : wpc[u] \notin Settled \cup {"none"}}

\* C27: during processPdfs, at every moment the number of PDF workers that
\* have started and not yet finished is at most pdfConcurrency, whatever
\* the number of URLs and the order in which the workers complete.
C27_WorkersWithinPool == Cardinality(RunningWorkers) <= pdfConcurrency

\* A worker has finished, the next URL's worker has taken its place, and
\* the pool is full again, of more than one worker.
C27_Witness ==
    /\ ppc = "race"
    /\ pdfConcurrency > 1
    /\ Cardinality(RunningWorkers) = pdfConcurrency
    /\ \E u \in DOMAIN wpc : wpc[u] \in Settled

\* ---------------------------------------------------------------- C25
\* The string leaves of a document that match the document-reference
\* pattern, at every depth and under every key.
RECURSIVE MatchingLeaves(_)
MatchingLeaves(v) ==
    CASE v.t = "str" -> IF isPdfUrl(v.s) THEN {v.s} ELSE {}
      [] v.t = "arr" ->
            UNION {MatchingLeaves(v.items[i]) : i \in 1..Len(v.items)}
      [] v.t = "object" ->
            UNION {MatchingLeaves(v.fields[i].v) : i \in 1..Len(v.fields)}
      [] OTHER -> {}

\* C25: collectPdfUrls collects every string leaf of the source document
\* that matches the document-reference pattern, whatever its nesting depth,
\* the key it is stored under and whether a property object wraps it.
C25_EveryPdfLeafCollected ==
    kpc = "returned" => MatchingLeaves(doc) \subseteq collected

\* ---------------------------------------------------------------- C29
\* C29: getOrCreateCollectionName creates the collection only if needed: a
\* step of it sends a create-collection request only for a collection that
\* the vector store does not have.
C29_CreateOnlyIfMissing ==
    [][\A i \in (Len(requests) + 1)..Len(requests') :
          requests'[i].op = "create" => requests'[i].name \notin existing]_vars

\* ---------------------------------------------------------------- C30
\* C30: under any interleaving of concurrent listMappings calls, and after
\* a failed first initialization, the client that getClient has returned to
\* a caller is one whose connect() has completed successfully.
C30_OnlyConnectedClientReturned ==
    \A c \in DOMAIN held : held[c] # 0 => clients[held[c]] = "connected"

\* ---------------------------------------------------------------- C21
\* The positions of the chunk records among docs.
ChunkRecords(docs) ==
    {i \in 1..Len(docs) : docs[i].kind \in {"jsonld", "pdf-text"}}

\* The chunk records of docs that carry fingerprint h.
WithFingerprint(docs, h) == {i \in ChunkRecords(docs) : docs[i].sha256 = h}

\* The files of the current run that were read and parsed.
FilesRead == {i \in 1..Len(targets) : i < fileIdx /\ i \notin skipped}

\* The fingerprints of the chunks of the JSON-LD files read.
JsonFingerprints ==
    {<<targets[i].entities[e][c]>> :
        <<i, e, c>> \in {t \in FilesRead \X (1..2) \X (1..2) :
                            /\ t[2] <= Len(targets[t[1]].entities)
                            /\ t[3] <= Len(targets[t[1]].entities[t[2]])}}

C22_DedupStateScopedToRun ==
    ipc = "list" => (seenHashes = {} /\ seenPdfFileHashes = {})

\* ---------------------------------------------------------------- C23
\* The docs of the current run's upload.
UploadedNow == {uploaded[i] : i \in 1..Len(uploaded)}

\* The parent docs of the entities, with fact paragraphs, of the files read.
JsonParentsRead ==
    {jsonRecord(targets[i], e - 1, "parent", "parent", -1) :
        <<i, e>> \in {t \in FilesRead \X (1..2) :
                         /\ t[2] <= Len(targets[t[1]].entities)
                         /\ targets[t[1]].entities[t[2]] # <<>>}}

\* The PDF workers that ran to their end.
PdfsComplete == {u \in DOMAIN wpc : wpc[u] = "complete"}

\* C23: a source file that cannot be read or parsed, and a referenced PDF
\* whose fetch or parse fails, is skipped and the run continues: the step
\* that skips a file goes on to the next file or to the end of the loop,
\* the step in which a PDF worker fails leaves processPdfs running, and the
\* upload that follows holds the records of all other sources: the parent
\* of every entity read, a chunk record for every fingerprint of a first
\* run's JSON-LD files, and the parent and the chunks of every PDF whose
\* worker ran to its end.
C23_FailedSourcesSkipped ==
    [][/\ skipped' # skipped /\ run' = run => ipc' \in {"read", "parents"}
       /\ \A u \in DOMAIN wpc :
             (wpc[u] \in {"fetch", "parse"} /\ wpc'[u] = "failed")
                => (ipc' = "pdfs" /\ ppc' = ppc /\ out' = out)
       /\ (ipc = "pdfs" /\ ipc' \in {"done", "uploadFailed"}) =>
             /\ JsonParentsRead' \subseteq UploadedNow'
             /\ run = 1 =>
                   \A h \in JsonFingerprints' :
                      WithFingerprint(uploaded', h) # {}
             /\ \A u \in PdfsComplete :
                   /\ parentRecord(u, fetched[u]) \in UploadedNow'
                   /\ \A c \in 1..Len(fetched[u].chunks) :
                         WithFingerprint(uploaded',
                            combinedHash(fetched[u], fetched[u].chunks[c])) # {}
      ]_vars

\* A run has completed although a file could not be read and the fetch or
\* the parse of a PDF failed: its upload holds the records of the file that
\* was read and those of the PDF that could be processed.
C23_Witness ==
    /\ ipc = "done"
    /\ skipped # {}
    /\ FilesRead # {}
    /\ \E u \in DOMAIN wpc : wpc[u] = "failed" /\ fetched[u].parse \in {"none", "throws"}
    /\ PdfsComplete # {}
    /\ \E d \in UploadedNow : d.kind = "jsonld"
    /\ \E d \in UploadedNow : d.kind = "pdf-text"

\* ---------------------------------------------------------------- C24
\* C24: every ingestion-time error is contained per document: a failed
\* embedding call for the parent or for a chunk of one JSON-LD document
\* does not end the run, which goes on to processPdfs and to the upload.
C24_EmbeddingFailureContained == ipc # "embedFailed"

\* ---------------------------------------------------------------- C28
\* The source a doc was built from: the file of a JSON-LD doc, the URL of a
\* PDF doc.
SourceOf(d) ==
    IF "source" \in DOMAIN d THEN <<"file", d.source>> ELSE <<"url", d.sourceUrl>>

\* C28: within one ingestion run, distinct source documents never share a
\* parent_id: two uploaded docs with one parent_id, parents or chunks,
\* were built from the same file or from the same PDF URL.
C28_ParentIdOfOneSource ==
    \A i, j \in 1..Len(uploaded) :
       uploaded[i].parent_id = uploaded[j].parent_id
          => SourceOf(uploaded[i]) = SourceOf(uploaded[j])

====
